---- MODULE Spec2Model ----
(***************************************************************************)
(* A model of gnucash_import.py: main and its three modes; fetch_token and *)
(* refresh; the download of balances and transaction lists from the        *)
(* aggregator (download_transactions, _download_account,                   *)
(* _reconfirm_account), one step for each await of each task; the          *)
(* reconciliation of the booked records against the ledger                 *)
(* (_import_transactions, import_transactions); and register_account.      *)
(*                                                                         *)
(* Strings are sequences of tokens; the tokens "TXID: " and "TXNAME: "     *)
(* stand for those substrings and ";" and " " for single characters.       *)
(* Amounts are rationals where the program holds decimal strings or the    *)
(* store's numerics, and IEEE 754 doubles where it holds Python floats;    *)
(* the store is taken to keep the double it is handed.                     *)
(* Dates are day numbers; a datetime is a number of ticks, TicksPerDay     *)
(* ticks to the day.                                                       *)
(***************************************************************************)
EXTENDS Integers, Sequences, FiniteSets, TLC

VARIABLES
    books,         \* file -> [accts, entries]: the ledger of each file
    tod,           \* time of day (ticks) the store reports for an entry date
    balances,      \* acc_id -> downloaded balance (download_transactions)
    transactions,  \* acc_id -> [booked, pending] (download_transactions)
    pc,            \* position of main
    run,           \* number of the current invocation of import_transactions
    fi,            \* index of the ledger file being processed
    ai,            \* index of the account of that file being processed
    ri,            \* index of the next booked record of that account
    index,         \* gc_splits, split_by_txid, splits_by_name of the account
    out,           \* what the current run has printed about the ledgers
    last,          \* what the last processed record led to
    opened,        \* the ledger files a Session has been opened on in this run
    tasks,         \* the coroutines _download_account(sess, acc_id) of line 150
    auth,          \* the Authorization header of the client session
    books0,        \* the ledgers as they were at the start
    mode,          \* the mode of the command line
    config,        \* CONFIG
    saved,         \* what CONFIG_PATH holds
    reg            \* the locals of register_account

vars == <<books, tod, balances, transactions, pc, run, fi, ai, ri, index, out,
          last, opened, tasks, auth, books0, mode, config, saved, reg>>

----------------------------------------------------------------------------
(* Bounds of the model *)

MaxRuns == 2
TicksPerDay == 3

----------------------------------------------------------------------------
(* Sequences *)

Range(s) == {s[i] : i \in 1..Len(s)}

RECURSIVE Concat(_)
Concat(ss) == IF ss = <<>> THEN <<>> ELSE Head(ss) \o Concat(Tail(ss))

Max(a, b) == IF a >= b THEN a ELSE b
Abs(a) == IF a >= 0 THEN a ELSE -a

----------------------------------------------------------------------------
(* Natural numbers of any size: sequences of digits to the base 2^15, the   *)
(* least significant first, the last digit not 0; <<>> is 0                 *)

RECURSIVE BitLen(_)
BitLen(n) == IF n = 0 THEN 0 ELSE 1 + BitLen(n \div 2)

RECURSIVE Big(_)
Big(n) == IF n = 0 THEN <<>> ELSE <<n % 32768>> \o Big(n \div 32768)

RECURSIVE Trim(_)
Trim(x) ==
    IF x # <<>> /\ x[Len(x)] = 0 THEN Trim(SubSeq(x, 1, Len(x) - 1)) ELSE x

Digit(x, i) == IF i >= 1 /\ i <= Len(x) THEN x[i] ELSE 0

RECURSIVE BigAddFrom(_, _, _, _)
BigAddFrom(x, y, i, carry) ==
    IF i > Len(x) /\ i > Len(y) THEN Big(carry)
    ELSE LET s == Digit(x, i) + Digit(y, i) + carry
         IN <<s % 32768>> \o BigAddFrom(x, y, i + 1, s \div 32768)
BigAdd(x, y) == BigAddFrom(x, y, 1, 0)

\* x - y for x >= y
RECURSIVE BigSubFrom(_, _, _, _)
BigSubFrom(x, y, i, borrow) ==
    IF i > Len(x) THEN <<>>
    ELSE LET s == x[i] - Digit(y, i) - borrow
         IN <<(s + 32768) % 32768>> \o
            BigSubFrom(x, y, i + 1, IF s < 0 THEN 1 ELSE 0)
BigSub(x, y) == Trim(BigSubFrom(x, y, 1, 0))

BigLess(x, y) ==
    IF Len(x) # Len(y) THEN Len(x) < Len(y)
    ELSE LET differ == {i \in 1..Len(x) : x[i] # y[i]}
         IN /\ differ # {}
            /\ LET top == CHOOSE i \in differ : \A j \in differ : j <= i
               IN x[top] < y[top]

\* x * k for 0 <= k <= 2^15
RECURSIVE BigScaleFrom(_, _, _, _)
BigScaleFrom(x, k, i, carry) ==
    IF i > Len(x) THEN Big(carry)
    ELSE LET s == x[i] * k + carry
         IN <<s % 32768>> \o BigScaleFrom(x, k, i + 1, s \div 32768)
BigScale(x, k) == IF k = 0 THEN <<>> ELSE BigScaleFrom(x, k, 1, 0)

\* x * 2^(15 * q)
ShiftDigits(x, q) == IF x = <<>> THEN <<>> ELSE [i \in 1..q |-> 0] \o x

RECURSIVE BigMul(_, _)
BigMul(x, y) ==
    IF y = <<>> THEN <<>>
    ELSE BigAdd(BigScale(x, Head(y)), ShiftDigits(BigMul(x, Tail(y)), 1))

\* x div d and x mod d for 0 < d <= 2^15
RECURSIVE ShortDiv(_, _)
ShortDiv(x, d) ==
    IF x = <<>> THEN [q |-> <<>>, r |-> 0]
    ELSE LET hi == ShortDiv(Tail(x), d)
             cur == hi.r * 32768 + Head(x)
         IN [q |-> <<cur \div d>> \o hi.q, r |-> cur % d]

BigBit(x, k) == (Digit(x, (k \div 15) + 1) \div (2 ^ (k % 15))) % 2

BigBitLen(x) == IF x = <<>> THEN 0 ELSE 15 * (Len(x) - 1) + BitLen(x[Len(x)])

\* x * 2^k
BigShl(x, k) == ShiftDigits(BigScale(x, 2 ^ (k % 15)), k \div 15)

\* x div 2^k
BigShr(x, k) ==
    IF k \div 15 >= Len(x) THEN <<>>
    ELSE Trim(ShortDiv(SubSeq(x, (k \div 15) + 1, Len(x)), 2 ^ (k % 15)).q)

\* x mod 2^k = 0
BigLowZero(x, k) ==
    /\ \A i \in 1..(k \div 15) : Digit(x, i) = 0
    /\ Digit(x, (k \div 15) + 1) % (2 ^ (k % 15)) = 0

\* the number of zero bits n ends in, n # 0
RECURSIVE TrailingZeros(_)
TrailingZeros(n) == IF n % 2 = 1 THEN 0 ELSE 1 + TrailingZeros(n \div 2)

RECURSIVE BigTrailingZeros(_)
BigTrailingZeros(x) ==
    IF Head(x) = 0 THEN 15 + BigTrailingZeros(Tail(x)) ELSE TrailingZeros(Head(x))

\* the largest q in lo..hi with y * q <= x, where y * lo <= x
RECURSIVE QuotDigit(_, _, _, _)
QuotDigit(x, y, lo, hi) ==
    IF lo = hi THEN lo
    ELSE LET mid == (lo + hi + 1) \div 2
         IN IF BigLess(x, BigScale(y, mid)) THEN QuotDigit(x, y, lo, mid - 1)
            ELSE QuotDigit(x, y, mid, hi)

\* the value of a number of at most two digits
Small(x) == Digit(x, 1) + 32768 * Digit(x, 2)

\* x div y for x < y * 2^15 and y of two digits or more: the quotient lies
\* between the quotients of the leading bits of x by the 15 leading bits of y,
\* rounded against and for it
Quotient(x, y) ==
    LET s == BigBitLen(y) - 15
        xt == Small(BigShr(x, s))
        yt == Small(BigShr(y, s))
        hi == (xt + 1) \div yt
    IN QuotDigit(x, y, xt \div (yt + 1), IF hi > 32767 THEN 32767 ELSE hi)

\* x div y and x mod y for y of two digits or more, one digit of x at a time
RECURSIVE LongDiv(_, _)
LongDiv(x, y) ==
    IF Len(x) < Len(y) THEN [q |-> <<>>, r |-> x]
    ELSE LET hi == LongDiv(Tail(x), y)
             cur == Trim(<<Head(x)>> \o hi.r)
             qd == Quotient(cur, y)
         IN IF BigLess(cur, y) THEN [q |-> <<0>> \o hi.q, r |-> cur]
            ELSE [q |-> <<qd>> \o hi.q, r |-> BigSub(cur, BigScale(y, qd))]

\* x div y and x mod y for y # 0
BigDiv(x, y) ==
    IF Len(y) = 1
    THEN LET dv == ShortDiv(x, y[1]) IN [q |-> Trim(dv.q), r |-> Big(dv.r)]
    ELSE LET dv == LongDiv(x, y) IN [q |-> Trim(dv.q), r |-> dv.r]

----------------------------------------------------------------------------
(* Amounts.  A GncNumeric or a decimal string is a rational [n, d] in lowest *)
(* terms with d > 0.  A Python float is an IEEE 754 double [s, m, e] of      *)
(* value s * m * 2^e with s the sign (0 for zero), m odd and below 2^53;     *)
(* the range of the exponent and the sign of zero are not kept.  An exact    *)
(* number [s, m, d, e] has the value s * m * 2^e / d.                        *)

RECURSIVE GCD(_, _)
GCD(a, b) == IF b = 0 THEN a ELSE GCD(b, a % b)

Norm(n, d) ==
    LET g == GCD(Abs(n), Abs(d))
        s == IF d < 0 THEN -1 ELSE 1
    IN [n |-> s * (n \div g), d |-> s * (d \div g)]

R(n) == [n |-> n, d |-> 1]

Sign(n) == IF n > 0 THEN 1 ELSE IF n < 0 THEN -1 ELSE 0

DZero == [s |-> 0, m |-> <<>>, e |-> 0]

IsRational(v) == "n" \in DOMAIN v
IsDouble(v) == "m" \in DOMAIN v /\ "d" \notin DOMAIN v

\* the exact value of a rational, of a double or of an exact number
Exact(v) ==
    IF IsRational(v)
    THEN [s |-> Sign(v.n), m |-> Big(Abs(v.n)), d |-> v.d, e |-> 0]
    ELSE IF IsDouble(v) THEN [s |-> v.s, m |-> v.m, d |-> 1, e |-> v.e]
    ELSE v

XNeg(a) == [a EXCEPT !.s = -@]

\* fabs(x)
Fabs(x) == [x EXCEPT !.s = Abs(@)]

RelTolInv == 1000000000

\* The operations on floats and on exact numbers are the branches of one
\* recursive operator, Float; each of the definitions that follow names one
\* branch.
RECURSIVE Float(_, _)

\* the double s * m * 2^e for 0 < m < 2^54
Canon(s, m, e) == Float("Canon", <<s, m, e>>)

\* the double nearest to s * (m + f) * 2^e, ties to the even mantissa, where
\* 0 <= f < 1 and f > 0 iff sticky; m has 55 bits or more when sticky
RoundToDouble(s, m, e, sticky) == Float("RoundToDouble", <<s, m, e, sticky>>)

\* the double nearest to s * (x / y) * 2^e, x with 55 bits or more than y has
RoundQuotient(s, x, y, e) == Float("RoundQuotient", <<s, x, y, e>>)

\* the exact sum of two exact numbers
XAdd(a, b) == Float("XAdd", <<a, b>>)

\* the exact sum of a sequence of amounts
XSum(s) == Float("XSum", <<s>>)

\* float(string), GncNumeric.to_double(): the double nearest to the value
ToDouble(v) == Float("ToDouble", <<v>>)

\* Python's a + b, a - b, a * b, a / b on floats; a / b for b # 0 (Python
\* raises ZeroDivisionError for b = 0)
RAdd(a, b) == Float("RAdd", <<a, b>>)
RSub(a, b) == Float("RSub", <<a, b>>)
RMul(a, b) == Float("RMul", <<a, b>>)
RDiv(a, b) == Float("RDiv", <<a, b>>)

\* x <= y on floats
Leq(x, y) == Float("Leq", <<x, y>>)

\* rel_tol = 1e-09, the default of math.isclose
RelTol == ToDouble(Norm(1, RelTolInv))

\* math.isclose(a, b) with abs_tol = 0.0
IsCloseAlways(a, b) == TRUE
IsClose(a, b) == Float("IsClose", <<a, b>>)

\* the sum of the magnitudes x and y, of the signs sx and sy, over d at 2^e
XAddAligned(sx, x, sy, y, d, e) ==
    IF sx = sy THEN [s |-> sx, m |-> BigAdd(x, y), d |-> d, e |-> e]
    ELSE IF x = y THEN [s |-> 0, m |-> <<>>, d |-> 1, e |-> 0]
    ELSE IF BigLess(x, y) THEN [s |-> sy, m |-> BigSub(y, x), d |-> d, e |-> e]
    ELSE [s |-> sx, m |-> BigSub(x, y), d |-> d, e |-> e]

Float(op, a) ==
    CASE op = "Canon" ->
           LET z == BigTrailingZeros(a[2])
           IN [s |-> a[1], m |-> BigShr(a[2], z), e |-> a[3] + z]
      [] op = "RoundToDouble" ->
           LET s == a[1]
               m == a[2]
               e == a[3]
               sticky == a[4]
               k == BigBitLen(m) - 53
           IN IF m = <<>> THEN DZero
              ELSE IF k <= 0 THEN Canon(s, m, e)
              ELSE LET q == BigShr(m, k)
                       half == BigBit(m, k - 1) = 1
                       rest == sticky \/ ~BigLowZero(m, k - 1)
                       up == half /\ (rest \/ BigBit(m, k) = 1)
                   IN Canon(s, IF up THEN BigAdd(q, <<1>>) ELSE q, e + k)
      [] op = "RoundQuotient" ->
           LET dv == BigDiv(a[2], a[3])
           IN RoundToDouble(a[1], dv.q, a[4], dv.r # <<>>)
      [] op = "XAdd" ->
           LET x == a[1]
               y == a[2]
               d == (x.d * y.d) \div GCD(x.d, y.d)
               e == IF x.e <= y.e THEN x.e ELSE y.e
           IN IF x.s = 0 THEN y
              ELSE IF y.s = 0 THEN x
              ELSE XAddAligned(x.s, BigScale(BigShl(x.m, x.e - e), d \div x.d),
                               y.s, BigScale(BigShl(y.m, y.e - e), d \div y.d),
                               d, e)
      [] op = "XSum" ->
           IF a[1] = <<>> THEN Exact(R(0))
           ELSE XAdd(Exact(Head(a[1])), XSum(Tail(a[1])))
      [] op = "ToDouble" ->
           IF IsDouble(a[1]) THEN a[1]
           ELSE LET x == Exact(a[1])
                    k == Max(0, 55 + BitLen(x.d) - BigBitLen(x.m))
                IN IF x.s = 0 THEN DZero
                   ELSE IF x.d = 1 THEN RoundToDouble(x.s, x.m, x.e, FALSE)
                   ELSE RoundQuotient(x.s, BigShl(x.m, k), Big(x.d), x.e - k)
      [] op = "RAdd" ->
           ToDouble(XAdd(Exact(ToDouble(a[1])), Exact(ToDouble(a[2]))))
      [] op = "RSub" ->
           ToDouble(XAdd(Exact(ToDouble(a[1])), XNeg(Exact(ToDouble(a[2])))))
      [] op = "RMul" ->
           LET x == ToDouble(a[1])
               y == ToDouble(a[2])
           IN RoundToDouble(x.s * y.s, BigMul(x.m, y.m), x.e + y.e, FALSE)
      [] op = "RDiv" ->
           LET x == ToDouble(a[1])
               y == ToDouble(a[2])
               k == 55 + BigBitLen(y.m) - BigBitLen(x.m)
           IN IF x.s = 0 THEN DZero
              ELSE RoundQuotient(x.s * y.s, BigShl(x.m, k), y.m, x.e - y.e - k)
      [] op = "Leq" ->
           \* by the signs, then by the position of the leading bit, then by
           \* the sign of the difference
           LET x == a[1]
               y == a[2]
               px == x.e + BigBitLen(x.m)
               py == y.e + BigBitLen(y.m)
           IN IF x.s # y.s THEN x.s < y.s
              ELSE IF x.s = 0 THEN TRUE
              ELSE IF px # py THEN (IF x.s = 1 THEN px < py ELSE px > py)
              ELSE RSub(x, y).s <= 0
      [] op = "IsClose" ->
           \* a == b, or diff = fabs(b - a) and diff <= fabs(rel_tol * b) or
           \* diff <= fabs(rel_tol * a) or diff <= abs_tol
           LET x == ToDouble(a[1])
               y == ToDouble(a[2])
               diff == Fabs(RSub(y, x))
           IN \/ x = y
              \/ Leq(diff, Fabs(RMul(RelTol, y)))
              \/ Leq(diff, Fabs(RMul(RelTol, x)))
              \/ Leq(diff, DZero)

----------------------------------------------------------------------------
(* The annotation grammar *)

TXID == "TXID: "
TXNAME == "TXNAME: "
NoMatch == <<"no match">>

\* re.search(tag + r"(.+?)(;|$)", memo): group(1), or NoMatch
Search(tag, memo) ==
    LET starts == {i \in 1..(Len(memo) - 1) : memo[i] = tag}
    IN IF starts = {} THEN NoMatch
       ELSE LET i == CHOOSE k \in starts : \A m \in starts : k <= m
                ends == {j \in (i + 1)..Len(memo) :
                            j = Len(memo) \/ memo[j + 1] = ";"}
                j == CHOOSE k \in ends : \A m \in ends : k <= m
            IN SubSeq(memo, i + 1, j)

\* f"TXID: {tx_data['internalTransactionId']}; TXNAME: {desc};"
Annotation(id, desc) == <<TXID>> \o id \o <<";", " ", TXNAME>> \o desc \o <<";">>

----------------------------------------------------------------------------
(* Python dicts as sequences of [k, v] in insertion order *)

DictHas(d, k) == \E i \in 1..Len(d) : d[i].k = k
DictGet(d, k, default) ==
    IF DictHas(d, k) THEN d[CHOOSE i \in 1..Len(d) : d[i].k = k].v ELSE default
DictSet(d, k, v) ==
    IF DictHas(d, k)
    THEN [i \in 1..Len(d) |-> IF d[i].k = k THEN [k |-> k, v |-> v] ELSE d[i]]
    ELSE Append(d, [k |-> k, v |-> v])
DictPop(d, k) ==
    LET Other(e) == e.k # k
    IN SelectSeq(d, Other)
DictKeys(d) == [i \in 1..Len(d) |-> d[i].k]
DictValues(d) == [i \in 1..Len(d) |-> d[i].v]

\* the file names and account ids there are, in the order of Python's strings
StrOrder == <<"A1", "A2", "A3", "N1", "N2", "f1", "f2", "f3">>

\* the dict with its keys in that order
SortDict(d) ==
    LET Mine(k) == DictHas(d, k)
        keys == SelectSeq(StrOrder, Mine)
    IN [i \in 1..Len(keys) |-> [k |-> keys[i], v |-> DictGet(d, keys[i], <<>>)]]

----------------------------------------------------------------------------
(* CONFIG: the keys it has, the secrets and the token, and under "accounts" *)
(* ledger file -> acc_id -> AccountData                                     *)

\* a configuration as register_account and fetch_token have written it, with
\* the date key of one account changed by hand
OldConfig ==
    [keys |-> {"secret_id", "secret_key", "token", "accounts"},
     secret_id |-> <<"s", "1">>, secret_key |-> <<"s", "1">>, token |-> "t0",
     accounts |->
        <<[k |-> "f1",
           v |-> <<[k |-> "A1",
                    v |-> [gc_account |-> "Bank", date_key |-> "bookingDate",
                           iban |-> "GB11", inst |-> "BANK1"]],
                   [k |-> "A2",
                    v |-> [gc_account |-> "Card", date_key |-> "valueDate",
                           iban |-> "GB22", inst |-> "BANK1"]]>>],
          [k |-> "f2",
           v |-> <<[k |-> "A3",
                    v |-> [gc_account |-> "Savings", date_key |-> "bookingDate",
                           iban |-> "GB33", inst |-> "BANK2"]]>>]>>]

\* a configuration with one account in each of two files
SmallConfig ==
    [OldConfig EXCEPT !.accounts[1].v = SubSeq(@, 1, 1)]

\* a configuration with the same account id under two files, for another
\* ledger account and with another date key
SharedConfig ==
    [OldConfig EXCEPT !.accounts =
        <<[k |-> "f1",
           v |-> <<[k |-> "A3",
                    v |-> [gc_account |-> "Bank", date_key |-> "bookingDate",
                           iban |-> "GB11", inst |-> "BANK1"]]>>],
          [k |-> "f2",
           v |-> <<[k |-> "A3",
                    v |-> [gc_account |-> "Savings", date_key |-> "valueDate",
                           iban |-> "GB33", inst |-> "BANK2"]]>>]>>]

\* CONFIG when there is no file at CONFIG_PATH, line 47
NewConfig ==
    [keys |-> {}, secret_id |-> <<>>, secret_key |-> <<>>, token |-> "",
     accounts |-> <<>>]

\* json.dumps(CONFIG, sort_keys=True, indent=4), as json.loads reads it back
SortKeys(c) ==
    LET accs == c.accounts
    IN [c EXCEPT !.accounts =
           SortDict([i \in 1..Len(accs) |->
                        [k |-> accs[i].k, v |-> SortDict(accs[i].v)]])]

\* CONFIG["accounts"].items() and accounts.items()
Files == DictKeys(config.accounts)

AccIds(f) == DictKeys(DictGet(config.accounts, f, <<>>))

AllAccIds == Concat([i \in 1..Len(Files) |-> AccIds(Files[i])])

\* accounts[acc_id] for the accounts of the file f, lines 162 and 250: an
\* account is looked up under the file the loop of line 247 is at
AccountData(f, a) == DictGet(DictGet(config.accounts, f, <<>>), a, <<>>)

----------------------------------------------------------------------------
(* The ledger store, as the program uses it *)

NoRef == <<0, 0>>

EntryOf(b, ref) == b.entries[ref[1]]
SplitOf(b, ref) == b.entries[ref[1]].splits[ref[2]]

\* every split of the book, in the order of the entries and of their splits
AllSplits(b) ==
    Concat([e \in 1..Len(b.entries) |->
               [s \in 1..Len(b.entries[e].splits) |-> <<e, s>>]])

\* gc_account.GetSplitList()
GetSplitList(b, acct) ==
    LET Mine(ref) == SplitOf(b, ref).acc = acct
    IN SelectSeq(AllSplits(b), Mine)

\* tx.GetSplitList()
EntrySplits(b, e) == [s \in 1..Len(b.entries[e].splits) |-> <<e, s>>]

\* gc_acc.GetBalance()
GetBalance(b, acct) ==
    LET refs == GetSplitList(b, acct)
    IN XSum([i \in 1..Len(refs) |-> SplitOf(b, refs[i]).value])

\* root.lookup_by_full_name(name) finds the account
LookupByFullName(b, acct) == acct \in b.accts

\* session.book.get_table().lookup("CURRENCY", code)
LookupCurrency(b, code) == IF code \in b.commodities THEN code ELSE "None"

\* datetime.fromisoformat(tx_data[acc["date_key"]])
FromIsoFormat(day) == day * TicksPerDay

\* split.parent.GetDate()
GetDate(b, e) == b.entries[e].date * TicksPerDay + tod

\* timedelta(5)
Window == 5
TimeDelta(days) == days * TicksPerDay

----------------------------------------------------------------------------
(* Index construction, lines 167-179 *)

\* {m.group(1): s for s in gc_splits if (m := re.search(r"TXID: ...", memo))}
RECURSIVE SplitByTxid(_, _, _)
SplitByTxid(b, refs, d) ==
    IF refs = <<>> THEN d
    ELSE LET m == Search(TXID, SplitOf(b, Head(refs)).memo)
         IN SplitByTxid(b, Tail(refs),
                        IF m = NoMatch THEN d ELSE DictSet(d, m, Head(refs)))

\* [s for s in gc_splits if s not in split_by_txid.values()]
Untagged(refs, by_txid) ==
    LET Free(ref) == ref \notin Range(DictValues(by_txid))
    IN SelectSeq(refs, Free)

\* splits_by_name.setdefault(name, []).append(split) over split_by_txid.values()
RECURSIVE GroupByName(_, _, _)
GroupByName(b, refs, d) ==
    IF refs = <<>> THEN d
    ELSE LET m == Search(TXNAME, SplitOf(b, Head(refs)).memo)
         IN GroupByName(b, Tail(refs),
                IF m = NoMatch THEN d
                ELSE DictSet(d, m, Append(DictGet(d, m, <<>>), Head(refs))))

\* splits.sort(key=lambda s: s.parent.GetDate()): a stable sort
RECURSIVE SortByDate(_, _)
SortByDate(b, refs) ==
    IF refs = <<>> THEN <<>>
    ELSE LET x == refs[Len(refs)]
             rest == SortByDate(b, SubSeq(refs, 1, Len(refs) - 1))
             NotAfter(r) == GetDate(b, r[1]) <= GetDate(b, x[1])
             After(r) == GetDate(b, r[1]) > GetDate(b, x[1])
         IN SelectSeq(rest, NotAfter) \o <<x>> \o SelectSeq(rest, After)

BuildIndexOf(b, acct) ==
    LET all == GetSplitList(b, acct)
        by_txid == SplitByTxid(b, all, <<>>)
        groups == GroupByName(b, DictValues(by_txid), <<>>)
    IN [gc_account |-> acct,
        gc_splits |-> Untagged(all, by_txid),
        split_by_txid |-> by_txid,
        splits_by_name |->
            [i \in 1..Len(groups) |->
                [k |-> groups[i].k, v |-> SortByDate(b, groups[i].v)]]]

NoIndex ==
    [gc_account |-> "", gc_splits |-> <<>>, split_by_txid |-> <<>>,
     splits_by_name |-> <<>>]

----------------------------------------------------------------------------
(* One booked record, lines 181-241 *)

\* tx_data[acc["date_key"]]
DateOf(f, a, r) ==
    IF AccountData(f, a).date_key = "bookingDate" THEN r.bookingDate ELSE r.valueDate

\* min_date < tx_date < max_date, lines 197-199
InWindowInclusive(split_date, tx_date) ==
    /\ split_date - TimeDelta(Window) <= tx_date
    /\ tx_date <= split_date + TimeDelta(Window)
InWindow(split_date, tx_date) ==
    /\ split_date - TimeDelta(Window) < tx_date
    /\ tx_date < split_date + TimeDelta(Window)

\* the candidates of lines 194-200
Candidates(b, gc_splits, r, tx_date) ==
    LET Fits(ref) ==
            /\ IsClose(SplitOf(b, ref).value, r.amount)
            /\ InWindow(GetDate(b, ref[1]), tx_date)
    IN SelectSeq(gc_splits, Fits)

\* min(candidates, key=lambda s: abs(s.parent.GetDate() - tx_date)): the first
\* of the candidates with the smallest key
MinByDateLast(b, cands, tx_date) == cands[Len(cands)]
MinByDate(b, cands, tx_date) ==
    LET Key(i) == Abs(GetDate(b, cands[i][1]) - tx_date)
    IN cands[CHOOSE i \in 1..Len(cands) :
                /\ \A j \in 1..Len(cands) : Key(i) <= Key(j)
                /\ \A j \in 1..(i - 1) : Key(j) > Key(i)]

\* existing_split.SetReconcile("y")
SetReconcileSkipped(b, ref) == b
SetReconcile(b, ref) ==
    [b EXCEPT !.entries[ref[1]].splits[ref[2]].rec = "y"]

\* lines 204-211: the memo is extended and the entry takes the record's date
AnnotateSplitUnseparated(b, ref, r, day) ==
    [b EXCEPT
       !.entries[ref[1]].splits[ref[2]].memo = @ \o Annotation(r.id, r.desc),
       !.entries[ref[1]].date = day]
AnnotateSplit(b, ref, r, day) ==
    LET note == SplitOf(b, ref).memo
        sep == IF note # <<>> THEN <<";", " ">> ELSE <<>>
    IN [b EXCEPT
          !.entries[ref[1]].splits[ref[2]].memo = note \o sep \o Annotation(r.id, r.desc),
          !.entries[ref[1]].date = day]

\* float(amount) * (other_split.GetValue().to_double() /
\* prev_split.GetAmount().to_double()), lines 235-236
FanOutValue(amount, other, prev) ==
    RMul(ToDouble(amount), RDiv(ToDouble(other), ToDouble(prev)))

\* prev_splits[-1] of splits_by_name.get(description), or NoRef
PrevSplitFirst(by_name, desc) ==
    LET prev_splits == DictGet(by_name, desc, <<>>)
    IN IF prev_splits = <<>> THEN NoRef ELSE prev_splits[1]
PrevSplit(by_name, desc) ==
    LET prev_splits == DictGet(by_name, desc, <<>>)
    IN IF prev_splits = <<>> THEN NoRef ELSE prev_splits[Len(prev_splits)]

\* filter(lambda s: s != prev_split, prev_split.parent.GetSplitList())
OtherSplits(b, prev) ==
    LET Other(ref) == ref # prev
    IN SelectSeq(EntrySplits(b, prev[1]), Other)

\* line 235 raises ZeroDivisionError for the first other split
DivisionFails(b, prev) ==
    /\ prev # NoRef
    /\ OtherSplits(b, prev) # <<>>
    /\ ToDouble(SplitOf(b, prev).value).s = 0

\* lines 220-224
PrimarySplitUnannotated(acct, r) ==
    [acc |-> acct, value |-> ToDouble(r.amount), memo |-> <<>>, rec |-> "n"]
PrimarySplit(acct, r) ==
    [acc |-> acct, value |-> ToDouble(r.amount), memo |-> Annotation(r.id, r.desc),
     rec |-> "n"]

\* lines 233-238
FanOut(b, prev, r) ==
    LET others == OtherSplits(b, prev)
    IN [i \in 1..Len(others) |->
          [acc |-> SplitOf(b, others[i]).acc,
           value |-> FanOutValue(r.amount, SplitOf(b, others[i]).value,
                                 SplitOf(b, prev).value),
           memo |-> <<>>,
           rec |-> "n"]]

\* lines 215-241 when nothing is raised: the committed entry
NewEntry(b, acct, r, day, by_name) ==
    LET prev == PrevSplit(by_name, r.desc)
    IN [date |-> day,
        desc |-> IF prev # NoRef THEN EntryOf(b, prev).desc ELSE r.desc,
        cur |-> LookupCurrency(b, r.currency),
        open |-> FALSE,
        splits |-> <<PrimarySplit(acct, r)>> \o
                   (IF prev # NoRef THEN FanOut(b, prev, r) ELSE <<>>)]

\* lines 215-235 when line 235 raises: the entry as it is left, its edit open,
\* the primary split attached, no description, no commit
AbandonedEntry(b, acct, r, day) ==
    [date |-> day, desc |-> <<>>, cur |-> LookupCurrency(b, r.currency),
     open |-> TRUE, splits |-> <<PrimarySplit(acct, r)>>]

AddEntryInFront(b, e) == [b EXCEPT !.entries = <<e>> \o @]
AddEntry(b, e) == [b EXCEPT !.entries = Append(@, e)]

NoRecord ==
    [id |-> <<>>, bookingDate |-> 0, valueDate |-> 0, desc |-> <<>>,
     amount |-> R(0), currency |-> ""]

\* last: the outcome of the last booked record (kind), the file and the account
\* of the pass, the record, the split it
\* reconciled, annotated or created (ref), the number of fuzzy candidates (n),
\* the record's day less the entry's day before a fuzzy match (delta) and the
\* template split of its description (tmpl)
NoLast == [kind |-> "none", file |-> "", acc |-> "", rec |-> NoRecord, ref |-> NoRef, n |-> 0,
           delta |-> 0, tmpl |-> NoRef]

----------------------------------------------------------------------------
(* import_transactions, lines 247-256, and _import_transactions, lines 160-241 *)

\* f and acc_id of the loops of lines 247 and 162
CurFile == config.accounts[fi].k
CurAcc == config.accounts[fi].v[ai].k

\* transactions[acc_id]["booked"], line 181: the records the loop goes through
BookedAndPending(a) == transactions[a].booked \o transactions[a].pending
Booked(a) == transactions[a].booked

\* the position after the last booked record of an account
NextAccount ==
    /\ ri' = 1
    /\ IF ai < Len(AccIds(CurFile))
       THEN pc' = "index" /\ ai' = ai + 1
       ELSE pc' = "check" /\ ai' = ai

\* with Session(str(Path(f).expanduser())) as session:
OpenSession ==
    /\ pc = "open"
    /\ opened' = opened \cup {CurFile}
    /\ pc' = "index"
    /\ ai' = 1
    /\ ri' = 1
    /\ UNCHANGED <<books, tod, balances, transactions, run, fi, index, out, last,
                   tasks, auth, books0, mode, config, saved, reg>>

\* lines 162-179: the account is looked up and its search index built
BuildIndex ==
    /\ pc = "index"
    /\ LET acct == AccountData(CurFile, CurAcc).gc_account
       IN IF ~LookupByFullName(books[CurFile], acct)
          THEN \* raise RuntimeError(f"Account name not found: ...")
               /\ pc' = "aborted"
               /\ UNCHANGED <<ai, ri, index>>
          ELSE /\ index' = BuildIndexOf(books[CurFile], acct)
               /\ IF Booked(CurAcc) = <<>>
                  THEN NextAccount
                  ELSE pc' = "rec" /\ ri' = 1 /\ ai' = ai
    /\ UNCHANGED <<books, tod, balances, transactions, run, fi, out, last, opened,
                   tasks, auth, books0, mode, config, saved, reg>>

\* line 185: split_by_txid.get(tx_data["internalTransactionId"])
ExistingSplit(idx, r) == DictGet(idx.split_by_txid, r.id, NoRef)

\* lines 181-241: the body of the loop for the next booked record
ProcessRecord ==
    /\ pc = "rec"
    /\ LET b == books[CurFile]
           r == Booked(CurAcc)[ri]
           day == DateOf(CurFile, CurAcc, r)
           tx_date == FromIsoFormat(day)
           existing_split == ExistingSplit(index, r)
           candidates == Candidates(b, index.gc_splits, r, tx_date)
           split == MinByDate(b, candidates, tx_date)
           prev == PrevSplit(index.splits_by_name, r.desc)
           Go == IF ri < Len(Booked(CurAcc))
                 THEN pc' = "rec" /\ ri' = ri + 1 /\ ai' = ai
                 ELSE NextAccount
           Did(kind, ref, delta) ==
               [kind |-> kind, file |-> CurFile, acc |-> CurAcc, rec |-> r, ref |-> ref,
                n |-> Len(candidates), delta |-> delta, tmpl |-> prev]
       IN IF existing_split # NoRef
          THEN IF ~IsClose(SplitOf(b, existing_split).value, r.amount)
               THEN /\ out' = Append(out, [kind |-> "AmountMismatch", tx |-> r])
                    /\ last' = Did("mismatch", existing_split, 0)
                    /\ UNCHANGED books
                    /\ Go
               ELSE /\ books' = [books EXCEPT ![CurFile] = SetReconcile(b, existing_split)]
                    /\ last' = Did("hit", existing_split, 0)
                    /\ UNCHANGED out
                    /\ Go
          ELSE IF candidates # <<>>
          THEN /\ books' = [books EXCEPT ![CurFile] = AnnotateSplit(b, split, r, day)]
               /\ last' = Did("fuzzy", split, day - EntryOf(b, split).date)
               /\ UNCHANGED out
               /\ Go
          ELSE IF DivisionFails(b, prev)
          THEN /\ books' = [books EXCEPT ![CurFile] =
                               AddEntry(b, AbandonedEntry(b, index.gc_account, r, day))]
               /\ last' = Did("abort", <<Len(b.entries) + 1, 1>>, 0)
               /\ pc' = "aborted"
               /\ UNCHANGED <<out, ai, ri>>
          ELSE /\ books' = [books EXCEPT ![CurFile] =
                               AddEntry(b, NewEntry(b, index.gc_account, r, day,
                                                    index.splits_by_name))]
               /\ last' = Did("new", <<Len(b.entries) + 1, 1>>, 0)
               /\ UNCHANGED out
               /\ Go
    /\ UNCHANGED <<tod, balances, transactions, run, fi, index, opened, tasks, auth,
                   books0, mode, config, saved, reg>>

\* lines 251-256: what the balance check of one account prints
BalanceWarningInverted(b, f, a) ==
    IF IsClose(GetBalance(b, AccountData(f, a).gc_account), balances[a])
    THEN <<[kind |-> "BalanceDivergence",
            account |-> AccountData(f, a).gc_account,
            expected |-> balances[a]]>>
    ELSE <<>>
BalanceWarning(b, f, a) ==
    IF ~IsClose(GetBalance(b, AccountData(f, a).gc_account), balances[a])
    THEN <<[kind |-> "BalanceDivergence",
            account |-> AccountData(f, a).gc_account,
            expected |-> balances[a]]>>
    ELSE <<>>

\* lines 251-256 for every account of the file, then the session is left
CheckBalances ==
    /\ pc = "check"
    /\ LET accs == AccIds(CurFile)
       IN out' = out \o Concat([i \in 1..Len(accs) |->
                                   BalanceWarning(books[CurFile], CurFile, accs[i])])
    /\ IF fi < Len(Files)
       THEN pc' = "open" /\ fi' = fi + 1
       ELSE pc' = "done" /\ fi' = fi
    /\ UNCHANGED <<books, tod, balances, transactions, run, ai, ri, index, last,
                   opened, tasks, auth, books0, mode, config, saved, reg>>

\* import_transactions is called again on the ledgers it left, with the same
\* downloaded balances and transactions
NextRun ==
    /\ pc = "done"
    /\ run < MaxRuns
    /\ run' = run + 1
    /\ pc' = "open"
    /\ fi' = 1
    /\ ai' = 1
    /\ ri' = 1
    /\ index' = NoIndex
    /\ out' = <<>>
    /\ last' = NoLast
    /\ opened' = {}
    /\ UNCHANGED <<books, tod, balances, transactions, tasks, auth, books0, mode, config, saved, reg>>

----------------------------------------------------------------------------
(* main, fetch_token, refresh *)

\* resp.ok
Ok(status) == status < 400

\* main, lines 378-390: the mode of the command line picks the entry point,
\* the session starts without an Authorization header
Main ==
    /\ pc = "main"
    /\ pc' = CASE mode = "register" -> "country"
               [] mode = "token" -> "token"
               [] OTHER -> "refresh"
    /\ UNCHANGED <<books, tod, balances, transactions, run, fi, ai, ri, index, out,
                   last, opened, tasks, auth, books0, mode, config, saved, reg>>

\* what the user types at a prompt, character by character
SecretAnswers == {<<>>, <<"s", "2">>}

\* input(...) or CONFIG[key], lines 357 and 359; KeyError when the answer is
\* empty and the key is not in CONFIG
HasSecret(answer, key) == answer # <<>> \/ key \in config.keys
Secret(answer, key) == IF answer # <<>> THEN answer ELSE config[key]

\* lines 366-372: the new secrets and tokens are kept and written to the file
NewToken(secret_id, secret_key) ==
    [config EXCEPT !.keys = @ \cup {"secret_id", "secret_key", "token"},
                   !.secret_id = secret_id,
                   !.secret_key = secret_key,
                   !.token = "t1"]

\* fetch_token(sess), lines 354-375, as the entry point of the token mode
FetchToken ==
    /\ pc = "token"
    /\ \E id \in SecretAnswers : \E key \in SecretAnswers :
          IF ~HasSecret(id, "secret_id") \/ ~HasSecret(key, "secret_key")
          THEN \* KeyError
               /\ pc' = "aborted"
               /\ UNCHANGED <<auth, config, saved>>
          ELSE \E status \in {200, 403} :
                  /\ pc' = "done"
                  /\ IF Ok(status)
                     THEN LET c == NewToken(Secret(id, "secret_id"),
                                            Secret(key, "secret_key"))
                          IN /\ config' = c
                             /\ saved' = SortKeys(c)
                             /\ auth' = "Bearer"
                     ELSE UNCHANGED <<auth, config, saved>>
    /\ UNCHANGED <<books, tod, balances, transactions, run, fi, ai, ri, index, out,
                   last, opened, tasks, books0, mode, reg>>

NoBalance == [n |-> 0, d |-> 0]
NoGroup == [booked |-> <<>>, pending |-> <<>>]
NoData == [unbound |-> TRUE]

\* a coroutine _download_account(sess, acc_id) before it has run: its acc_id,
\* its position, its locals retry, data and balance, the agreement it asks to reconfirm, what
\* it returns or raises, the number of requests it has made and the status of
\* the last response to its balance request
NewTask(acc_id) ==
    [acc |-> acc_id, pc |-> "new", retry |-> 0, data |-> NoData, balance |-> NoBalance, eua |-> "",
     result |-> NoGroup, err |-> "", nbal |-> 0, nreconf |-> 0, ntx |-> 0,
     status |-> 0]

\* lines 146-150: one coroutine for every acc_id of every file, in the order of
\* CONFIG["accounts"]
Tasks == [t \in 1..Len(AllAccIds) |-> NewTask(AllAccIds[t])]

\* where refresh returns to: register_account goes on with line 266,
\* download_transactions with lines 147-154 (CONFIG["accounts"] raises KeyError
\* when there is no such key)
AfterRefresh ==
    IF mode = "register" THEN "institutions"
    ELSE IF "accounts" \notin config.keys THEN "aborted"
    ELSE "gather"

\* refresh, lines 80-90, with fetch_token(sess, interactive=False) on a 401,
\* and what follows its return as far as the next await: in
\* download_transactions the coroutines handed to gather
Refresh ==
    /\ pc = "refresh"
    /\ IF "token" \notin config.keys
       THEN \* KeyError
            /\ pc' = "aborted"
            /\ UNCHANGED <<auth, config, saved>>
       ELSE \E status \in {200, 401, 500} :
          IF status = 401
          THEN IF {"secret_id", "secret_key"} \subseteq config.keys
               THEN \E token_status \in {200, 403} :
                       /\ pc' = AfterRefresh
                       /\ IF Ok(token_status)
                          THEN LET c == NewToken(config.secret_id, config.secret_key)
                               IN /\ config' = c
                                  /\ saved' = SortKeys(c)
                                  /\ auth' = "Bearer"
                          ELSE UNCHANGED <<auth, config, saved>>
               ELSE /\ pc' = "aborted"
                    /\ UNCHANGED <<auth, config, saved>>
          ELSE IF ~Ok(status)
          THEN /\ pc' = "aborted"
               /\ UNCHANGED <<auth, config, saved>>
          ELSE /\ auth' = "Bearer"
               /\ pc' = AfterRefresh
               /\ UNCHANGED <<config, saved>>
    /\ tasks' = IF pc' = "gather" THEN Tasks ELSE tasks
    /\ UNCHANGED <<books, tod, balances, transactions, run, fi, ai, ri, index, out,
                   last, opened, books0, mode, reg>>

----------------------------------------------------------------------------
(* _reconfirm_account, _download_account, download_transactions *)

\* the tokens that match UUID_RE, line 49
Uuids == {"3fa85f64-5717-4562-b3fc-2c963f66afa6"}

\* re.search(UUID_RE, error.get("summary", "")): group(0), or ""
FindUuid(summary) ==
    LET hits == {i \in 1..Len(summary) : summary[i] \in Uuids}
    IN IF hits = {} THEN ""
       ELSE summary[CHOOSE i \in hits : \A j \in hits : i <= j]

\* the balance types of line 127, the most wanted first
PriorityOrderSwapped ==
    <<"expectedClosed", "closingBooked", "interimBooked", "openingBooked",
      "information", "interimAvailable", "closingAvailable", "openingAvailable">>
PriorityOrder ==
    <<"expectedClosed", "interimBooked", "closingBooked", "openingBooked",
      "information", "interimAvailable", "closingAvailable", "openingAvailable">>

\* {b["balanceType"]: b for b in data["balances"]}
RECURSIVE BalancesByType(_, _)
BalancesByType(body, d) ==
    IF body = <<>> THEN d
    ELSE BalancesByType(Tail(body), DictSet(d, Head(body).balanceType, Head(body)))

\* lines 124-130: the amount of the first type of the list found, as a float,
\* or NoBalance
SelectBalance(body) ==
    LET by_type == BalancesByType(body, <<>>)
        found == {i \in 1..Len(PriorityOrder) : DictHas(by_type, PriorityOrder[i])}
    IN IF found = {} THEN NoBalance
       ELSE LET k == PriorityOrder[CHOOSE i \in found : \A j \in found : i <= j]
            IN ToDouble(DictGet(by_type, k, NoBalance).amount)

\* the responses the aggregator may give to the balance request of an account
BalanceTypes == Range(PriorityOrder) \cup {"forwardAvailable"}

Balance(type, n) == [balanceType |-> type, amount |-> R(n)]

BalanceBodies(a) ==
    IF a = "A1"
    THEN {<<>>} \cup {<<Balance(t, 1)>> : t \in BalanceTypes}
         \cup {<<Balance(p[1], 1), Balance(p[2], 2)>> : p \in BalanceTypes \X BalanceTypes}
    ELSE {<<Balance("interimAvailable", 8)>>}

Summaries ==
    {<<>>, <<"Unauthorized">>,
     <<"EUA", "3fa85f64-5717-4562-b3fc-2c963f66afa6", "has", "expired">>}

\* the transaction lists the aggregator may return for an account
Groups(a) ==
    CASE a = "A1" ->
            {[booked |-> <<[id |-> <<"a">>, bookingDate |-> 14, valueDate |-> 15,
                            desc |-> <<"P">>, amount |-> R(10), currency |-> "GBP"]>>,
              pending |-> <<>>],
             [booked |-> <<>>,
              pending |-> <<[id |-> <<"b">>, bookingDate |-> 14, valueDate |-> 15,
                             desc |-> <<"Q">>, amount |-> R(10), currency |-> "GBP"]>>]}
      [] a = "A2" ->
            {[booked |-> <<[id |-> <<"c">>, bookingDate |-> 14, valueDate |-> 15,
                            desc |-> <<"Q">>, amount |-> R(-5), currency |-> "XXX"]>>,
              pending |-> <<>>]}
      [] OTHER ->
            {[booked |-> <<[id |-> <<"d">>, bookingDate |-> 15, valueDate |-> 16,
                            desc |-> <<"Gift">>, amount |-> R(7), currency |-> "GBP"]>>,
              pending |-> <<>>]}

\* y.lower().strip() on what the user types, character by character
Lower(s) == [i \in 1..Len(s) |-> IF s[i] = "Y" THEN "y" ELSE s[i]]

RECURSIVE Strip(_)
Strip(s) ==
    IF s # <<>> /\ Head(s) = " " THEN Strip(Tail(s))
    ELSE IF s # <<>> /\ s[Len(s)] = " " THEN Strip(SubSeq(s, 1, Len(s) - 1))
    ELSE s

Confirmed(y) == Strip(Lower(y)) = <<"y">>

ConfirmAnswers == {<<>>, <<"n">>, <<"y">>, <<" ", "Y", " ">>, <<"y", "e", "s">>}

\* a task sits in input(), line 104: the thread of the event loop is blocked
\* and no coroutine runs
Blocked == \E t \in DOMAIN tasks : tasks[t].pc = "input"

\* the event loop runs the tasks: main waits in gather, or is on its way out
\* after gather has raised
Running == pc \in {"gather", "raised"} /\ ~Blocked

\* the tasks take their first step in the order gather was given them
Started(t) == \A j \in 1..(t - 1) : tasks[j].pc # "new"
AllStarted == \A t \in DOMAIN tasks : tasks[t].pc # "new"

Failed(t, err) == [t EXCEPT !.pc = "failed", !.err = err]

\* retry == 0 and resp.status == 401, line 110
Any401(retry, status) == status = 401
FirstAttempt401(retry, status) == retry = 0 /\ status = 401

\* the first step of a task: line 109 sends the balance request
Start(t) ==
    /\ Running
    /\ tasks[t].pc = "new"
    /\ Started(t)
    /\ tasks' = [tasks EXCEPT ![t] = [@ EXCEPT !.pc = "balances", !.nbal = 1]]
    /\ UNCHANGED <<books, tod, balances, transactions, pc, run, fi, ai, ri, index,
                   out, last, opened, auth, books0, mode, config, saved, reg>>

\* line 109: the response to the balance request is there; lines 110-121 as
\* far as the await that reads its body
BalancesResponse(t) ==
    /\ Running
    /\ AllStarted
    /\ tasks[t].pc = "balances"
    /\ \E status \in {200, 401, 500} :
          tasks' = [tasks EXCEPT ![t] =
                       [@ EXCEPT !.status = status,
                                 !.pc = IF FirstAttempt401(tasks[t].retry, status)
                                        THEN "error"
                                        ELSE IF ~Ok(status) THEN "balances_text"
                                        ELSE "balances_json"]]
    /\ UNCHANGED <<books, tod, balances, transactions, pc, run, fi, ai, ri, index,
                   out, last, opened, auth, books0, mode, config, saved, reg>>

\* line 111: the body of the 401 is there; lines 112-119, with line 94 of
\* _reconfirm_account, as far as the next await
ErrorBody(t) ==
    /\ Running
    /\ tasks[t].pc = "error"
    /\ \E summary \in Summaries :
          tasks' = [tasks EXCEPT ![t] =
                       IF FindUuid(summary) # ""
                       THEN [@ EXCEPT !.pc = "reconfirm", !.eua = FindUuid(summary),
                                      !.nreconf = @ + 1]
                       ELSE [@ EXCEPT !.pc = "balances_text"]]
    /\ UNCHANGED <<books, tod, balances, transactions, pc, run, fi, ai, ri, index,
                   out, last, opened, auth, books0, mode, config, saved, reg>>

\* line 119: the text of the failed response is there; line 120 raises
BalancesText(t) ==
    /\ Running
    /\ tasks[t].pc = "balances_text"
    /\ tasks' = [tasks EXCEPT ![t] = Failed(@, "RuntimeError")]
    /\ UNCHANGED <<books, tod, balances, transactions, pc, run, fi, ai, ri, index,
                   out, last, opened, auth, books0, mode, config, saved, reg>>

\* line 121: the balances are there; lines 122-133, the balance is selected and
\* the transactions request sent
BalancesBody(t) ==
    /\ Running
    /\ tasks[t].pc = "balances_json"
    /\ \E body \in BalanceBodies(tasks[t].acc) :
          LET task == [tasks[t] EXCEPT !.data = [balances |-> body]]
          IN IF SelectBalance(body) = NoBalance
             THEN \* assert balance is not None, balances
                  tasks' = [tasks EXCEPT ![t] = Failed(task, "AssertionError")]
             ELSE tasks' = [tasks EXCEPT ![t] =
                               [task EXCEPT !.pc = "transactions",
                                         !.balance = SelectBalance(body),
                                         !.ntx = @ + 1]]
    /\ UNCHANGED <<books, tod, balances, transactions, pc, run, fi, ai, ri, index,
                   out, last, opened, auth, books0, mode, config, saved, reg>>

\* line 94: the response to the reconfirmation request is there
ReconfirmResponse(t) ==
    /\ Running
    /\ tasks[t].pc = "reconfirm"
    /\ \E status \in {200, 500} :
          tasks' = [tasks EXCEPT ![t] =
                       [@ EXCEPT !.pc = IF Ok(status) THEN "reconfirm_json"
                                        ELSE "reconfirm_text"]]
    /\ UNCHANGED <<books, tod, balances, transactions, pc, run, fi, ai, ri, index,
                   out, last, opened, auth, books0, mode, config, saved, reg>>

\* line 97: the text of the failed response is there; line 98 raises
ReconfirmText(t) ==
    /\ Running
    /\ tasks[t].pc = "reconfirm_text"
    /\ tasks' = [tasks EXCEPT ![t] = Failed(@, "RuntimeError")]
    /\ UNCHANGED <<books, tod, balances, transactions, pc, run, fi, ai, ri, index,
                   out, last, opened, auth, books0, mode, config, saved, reg>>

\* line 99: the link is there; lines 100-104 print it and wait for the user
ReconfirmBody(t) ==
    /\ Running
    /\ tasks[t].pc = "reconfirm_json"
    /\ tasks' = [tasks EXCEPT ![t] = [@ EXCEPT !.pc = "input"]]
    /\ UNCHANGED <<books, tod, balances, transactions, pc, run, fi, ai, ri, index,
                   out, last, opened, auth, books0, mode, config, saved, reg>>

\* lines 103-104: the user answers; anything but y asks again, y returns to
\* line 115 and the second pass of the loop sends the balance request again
Input(t) ==
    /\ pc \in {"gather", "raised"}
    /\ tasks[t].pc = "input"
    /\ \E y \in ConfirmAnswers :
          IF Confirmed(y)
          THEN tasks' = [tasks EXCEPT ![t] =
                            [@ EXCEPT !.pc = "balances", !.retry = 1, !.nbal = @ + 1]]
          ELSE UNCHANGED tasks
    /\ UNCHANGED <<books, tod, balances, transactions, pc, run, fi, ai, ri, index,
                   out, last, opened, auth, books0, mode, config, saved, reg>>

\* line 133: the response to the transactions request is there
TransactionsResponse(t) ==
    /\ Running
    /\ tasks[t].pc = "transactions"
    /\ \E status \in {200, 500} :
          tasks' = [tasks EXCEPT ![t] =
                       [@ EXCEPT !.pc = IF Ok(status) THEN "transactions_json"
                                        ELSE "transactions_text"]]
    /\ UNCHANGED <<books, tod, balances, transactions, pc, run, fi, ai, ri, index,
                   out, last, opened, auth, books0, mode, config, saved, reg>>

\* line 136: the text of the failed response is there; line 137 raises, data
\* is still the balances
TransactionsText(t) ==
    /\ Running
    /\ tasks[t].pc = "transactions_text"
    /\ tasks' = [tasks EXCEPT ![t] = Failed(@, "RuntimeError")]
    /\ UNCHANGED <<books, tod, balances, transactions, pc, run, fi, ai, ri, index,
                   out, last, opened, auth, books0, mode, config, saved, reg>>

\* line 138: the transactions are there; lines 139-141 return them
TransactionsBody(t) ==
    /\ Running
    /\ tasks[t].pc = "transactions_json"
    /\ \E group \in Groups(tasks[t].acc) :
          tasks' = [tasks EXCEPT ![t] =
                       [@ EXCEPT !.pc = "done", !.data = [transactions |-> group],
                                 !.result = group]]
    /\ UNCHANGED <<books, tod, balances, transactions, pc, run, fi, ai, ri, index,
                   out, last, opened, auth, books0, mode, config, saved, reg>>

\* asyncio.gather over the tasks has every result
SomeTaskDone == \E t \in DOMAIN tasks : tasks[t].pc = "done"
AllTasksDone == \A t \in DOMAIN tasks : tasks[t].pc = "done"

\* lines 155-157: the result of a later task takes the place of the result an
\* earlier task has returned for the same acc_id
LastResult(acc_id) ==
    tasks[CHOOSE t \in DOMAIN tasks :
             /\ tasks[t].acc = acc_id
             /\ \A u \in DOMAIN tasks : tasks[u].acc = acc_id => u <= t]

\* lines 152-157 and 245: gather returns, the two dicts are built, and the loop
\* of line 247 begins
Gather ==
    /\ pc = "gather"
    /\ ~Blocked
    /\ AllTasksDone
    /\ balances' = [a \in Range(AllAccIds) |-> LastResult(a).balance]
    /\ transactions' = [a \in Range(AllAccIds) |-> LastResult(a).result]
    /\ pc' = IF Files = <<>> THEN "done" ELSE "open"
    /\ UNCHANGED <<books, tod, run, fi, ai, ri, index, out, last, opened, tasks,
                   auth, books0, mode, config, saved, reg>>

\* line 154: gather raises in main what a task has raised; the other tasks are
\* left running while main leaves import_transactions and the client session
GatherFail ==
    /\ pc = "gather"
    /\ ~Blocked
    /\ \E t \in DOMAIN tasks : tasks[t].pc = "failed"
    /\ pc' = "raised"
    /\ UNCHANGED <<books, tod, balances, transactions, run, fi, ai, ri, index, out,
                   last, opened, tasks, auth, books0, mode, config, saved, reg>>

\* line 394: main has ended with the exception and asyncio.run cancels the
\* tasks that are still waiting
RunEnds ==
    /\ pc = "raised"
    /\ ~Blocked
    /\ pc' = "aborted"
    /\ tasks' = [t \in DOMAIN tasks |->
                    IF tasks[t].pc \in {"done", "failed"} THEN tasks[t]
                    ELSE [tasks[t] EXCEPT !.pc = "cancelled"]]
    /\ UNCHANGED <<books, tod, balances, transactions, run, fi, ai, ri, index, out,
                   last, opened, auth, books0, mode, config, saved, reg>>

----------------------------------------------------------------------------
(* register_account, lines 259-351 *)

\* register_account before it has run: its locals country, inst_id, the
\* accounts of the requisition still to be gone through, and the iban and
\* institution of the account at hand
NoRegistration ==
    [country |-> <<>>, inst_id |-> "", accounts |-> <<>>, iban |-> "", inst |-> ""]

CountryAnswers == {<<>>, <<"G">>, <<"F", "R">>}

\* lines 260-264: input(...) or "GB" until the answer has two characters, then
\* refresh is called
RegisterCountry ==
    /\ pc = "country"
    /\ \E answer \in CountryAnswers :
          LET country == IF answer = <<>> THEN <<"G", "B">> ELSE answer
          IN IF Len(country) # 2
             THEN UNCHANGED <<pc, reg>>
             ELSE /\ reg' = [reg EXCEPT !.country = country]
                  /\ pc' = "refresh"
    /\ UNCHANGED <<books, tod, balances, transactions, run, fi, ai, ri, index, out,
                   last, opened, tasks, auth, books0, mode, config, saved>>

Institutions == {"BANK1", "BANK2"}

\* lines 266-275: the institutions of the country are listed and the user
\* names one
RegisterInstitutions ==
    /\ pc = "institutions"
    /\ \E status \in {200, 500} :
          IF ~Ok(status)
          THEN pc' = "aborted" /\ UNCHANGED reg
          ELSE \E inst_id \in Institutions :
                  /\ reg' = [reg EXCEPT !.inst_id = inst_id]
                  /\ pc' = "agreement"
    /\ UNCHANGED <<books, tod, balances, transactions, run, fi, ai, ri, index, out,
                   last, opened, tasks, auth, books0, mode, config, saved>>

\* lines 276-294: the agreement and the requisition are created
RegisterAgreement ==
    /\ pc = "agreement"
    /\ \E agreement \in {200, 500} : \E requisition \in {200, 500} :
          pc' = IF Ok(agreement) /\ Ok(requisition) THEN "confirm" ELSE "aborted"
    /\ UNCHANGED <<books, tod, balances, transactions, run, fi, ai, ri, index, out,
                   last, opened, tasks, auth, books0, mode, config, saved, reg>>

\* what the requisition may list, and what the summary of a listed account
\* may say
RequisitionAccounts == {<<>>, <<"A1">>, <<"N1">>, <<"N2", "N1">>}
AccountSummaries ==
    {[iban |-> "GB11", institution_id |-> "BANK1"],
     [iban |-> "GB99", institution_id |-> "BANK1"]}

\* lines 296-305: the user confirms, anything but y asks again; then the
\* requisition is read; line 351 when it lists no account
RegisterConfirm ==
    /\ pc = "confirm"
    /\ \E y \in ConfirmAnswers :
          IF ~Confirmed(y)
          THEN UNCHANGED <<pc, reg, saved>>
          ELSE \E status \in {200, 500} :
                  IF ~Ok(status)
                  THEN pc' = "aborted" /\ UNCHANGED <<reg, saved>>
                  ELSE \E accounts \in RequisitionAccounts :
                          /\ reg' = [reg EXCEPT !.accounts = accounts]
                          /\ IF accounts = <<>>
                             THEN pc' = "done" /\ saved' = SortKeys(config)
                             ELSE pc' = "summary" /\ UNCHANGED saved
    /\ UNCHANGED <<books, tod, balances, transactions, run, fi, ai, ri, index, out,
                   last, opened, tasks, auth, books0, mode, config>>

\* next((f, k) for f, accs in CONFIG.get("accounts", {}).items()
\*      for k, a in accs.items() if a["inst"] == inst and a["iban"] == iban)
Registered(c, inst, iban) ==
    LET all == UNION {{<<i, j>> : j \in 1..Len(c.accounts[i].v)} :
                         i \in 1..Len(c.accounts)}
        hits == {p \in all : /\ c.accounts[p[1]].v[p[2]].v.inst = inst
                             /\ c.accounts[p[1]].v[p[2]].v.iban = iban}
    IN IF hits = {} THEN <<>>
       ELSE LET p == CHOOSE h \in hits : \A g \in hits :
                        h[1] < g[1] \/ (h[1] = g[1] /\ h[2] <= g[2])
            IN <<c.accounts[p[1]].k, c.accounts[p[1]].v[p[2]].k>>

\* lines 348-349: the data of the account moves from its old id to the new one
Rekey(c, file_path, old_acc_id, acc_id) ==
    LET accs == DictGet(c.accounts, file_path, <<>>)
        acc_config == DictGet(accs, old_acc_id, <<>>)
    IN [c EXCEPT !.accounts =
           DictSet(@, file_path, DictSet(DictPop(accs, old_acc_id), acc_id, acc_config))]

\* line 341
AddAccount(c, file_path, acc_id, account, iban, inst) ==
    [c EXCEPT !.keys = @ \cup {"accounts"},
              !.accounts =
                  DictSet(@, file_path,
                          DictSet(DictGet(@, file_path, <<>>), acc_id,
                                  [gc_account |-> account, date_key |-> "bookingDate",
                                   iban |-> iban, inst |-> inst]))]

\* the end of the body of the loop of line 307: the next account, or line 351
NextRegistration(c) ==
    /\ config' = c
    /\ IF Len(reg.accounts) > 1
       THEN pc' = "summary" /\ UNCHANGED saved
       ELSE pc' = "done" /\ saved' = SortKeys(c)

\* lines 308-328 and 347-349: the summary of the next account is read; an
\* account that is registered already takes the new id, for another one the
\* files are listed
RegisterSummary ==
    /\ pc = "summary"
    /\ \E status \in {200, 500} :
          IF ~Ok(status)
          THEN pc' = "aborted" /\ UNCHANGED <<reg, config, saved>>
          ELSE \E s \in AccountSummaries :
                  LET old == Registered(config, s.institution_id, s.iban)
                  IN IF old # <<>>
                     THEN /\ reg' = [reg EXCEPT !.accounts = Tail(@)]
                          /\ NextRegistration(Rekey(config, old[1], old[2],
                                                    Head(reg.accounts)))
                     ELSE /\ reg' = [reg EXCEPT !.iban = s.iban,
                                                !.inst = s.institution_id]
                          /\ pc' = "select"
                          /\ UNCHANGED <<config, saved>>
    /\ UNCHANGED <<books, tod, balances, transactions, run, fi, ai, ri, index, out,
                   last, opened, tasks, auth, books0, mode>>

\* int(answer), or -1 for what raises ValueError
ParseInt(answer) ==
    LET digits == <<"0", "1", "2", "3", "4", "5", "6", "7", "8", "9">>
        Value(c) == (CHOOSE i \in 1..10 : digits[i] = c) - 1
    IN IF answer = <<>> \/ \E i \in 1..Len(answer) : answer[i] \notin Range(digits)
       THEN -1
       ELSE IF Len(answer) = 1 THEN Value(answer[1])
       ELSE 10 * Value(answer[1]) + Value(answer[2])

SelectionAnswers == {<<"x">>, <<"0">>, <<"1">>, <<"2">>, <<"3">>}
PathAnswers == {"f1", "f3"}
AccountAnswers == {"Bank", "Current"}

\* lines 329-346: the user picks a listed file or names a new one, then names
\* the ledger account; a selection that is no number or out of range asks again
RegisterSelect ==
    /\ pc = "select"
    /\ \E answer \in SelectionAnswers :
          LET selection == ParseInt(answer)
              file_paths == DictKeys(config.accounts)
          IN IF selection < 0 \/ selection > Len(file_paths)
             THEN UNCHANGED <<pc, reg, config, saved>>
             ELSE \E path \in PathAnswers : \E account \in AccountAnswers :
                     LET file_path == IF selection = 0 THEN path
                                      ELSE file_paths[selection]
                     IN /\ reg' = [reg EXCEPT !.accounts = Tail(@)]
                        /\ NextRegistration(
                              AddAccount(config, file_path, Head(reg.accounts),
                                         account, reg.iban, reg.inst))
    /\ UNCHANGED <<books, tod, balances, transactions, run, fi, ai, ri, index, out,
                   last, opened, tasks, auth, books0, mode>>

----------------------------------------------------------------------------
(* The inputs: ledgers and downloaded records *)

Accts1 == {"Bank", "Card", "Exp1", "Exp2"}

Split(acct, value, memo) == [acc |-> acct, value |-> value, memo |-> memo, rec |-> "n"]

\* an entry entered by hand: no tag on its Bank split
Untag(day, memo) ==
    [date |-> day, desc |-> <<"Shop">>, cur |-> "GBP", open |-> FALSE,
     splits |-> <<Split("Bank", R(10), memo), Split("Exp1", R(-10), <<>>)>>]

\* an entry imported earlier: its Bank split carries the tag of record a
Tagged(day, value, memo) ==
    [date |-> day, desc |-> <<"Salary">>, cur |-> "GBP", open |-> FALSE,
     splits |-> <<Split("Bank", value, memo), Split("Exp1", R(-7), <<>>),
                  Split("Exp2", R(-3), <<>>)>>]

\* an entry imported earlier under the description P, renamed by the user
Recurring(day, id, descr, others) ==
    [date |-> day, desc |-> descr, cur |-> "GBP", open |-> FALSE,
     splits |-> <<Split("Bank", R(10), Annotation(id, <<"P">>))>> \o others]

Wages(day, id) ==
    Recurring(day, id, <<"Wages">>,
              <<Split("Exp1", R(-6), <<>>), Split("Exp2", R(-4), <<>>)>>)
Rent(day, id) ==
    Recurring(day, id, <<"Rent">>, <<Split("Exp1", R(-10), <<>>)>>)

\* an entry imported earlier under the description P and split in three
Thirds(day, id) ==
    [date |-> day, desc |-> <<"Shares">>, cur |-> "GBP", open |-> FALSE,
     splits |-> <<Split("Bank", R(3), Annotation(id, <<"P">>)),
                  Split("Exp1", R(-1), <<>>), Split("Exp2", R(-1), <<>>),
                  Split("Exp1", R(-1), <<>>)>>]

TagA == <<TXID, "a", ";">>
TagAP == Annotation(<<"a">>, <<"P">>)

Ledgers1 ==
    {<<>>}
    \cup {<<Untag(d, m)>> : d \in {10, 20}, m \in {<<>>, <<"n">>}}
    \cup {<<Tagged(10, v, m)>> : v \in {R(10), R(0)}, m \in {TagA, TagAP}}
    \cup {<<Tagged(10, R(10), TagAP), Untag(d, <<>>)>> : d \in {10, 20}}
    \cup {<<Untag(18, <<>>), Untag(12, <<"n">>)>>}
    \cup {<<Untag(12, <<>>), Untag(12, <<"n">>)>>}
    \cup {<<Wages(12, <<"c">>), Rent(10, <<"d">>), Untag(13, <<>>)>>,
          <<Wages(10, <<"c">>), Rent(12, <<"d">>)>>,
          <<Thirds(12, <<"c">>)>>}

Book1(entries) ==
    [accts |-> Accts1, commodities |-> {"GBP"}, entries |-> entries]

Book2 ==
    [accts |-> {"Savings"}, commodities |-> {"GBP"},
     entries |-> <<[date |-> 15, desc |-> <<"Gift">>, cur |-> "GBP", open |-> FALSE,
                    splits |-> <<Split("Savings", R(7), <<>>)>>]>>]

Record(id, day, desc, amount, cur) ==
    [id |-> id, bookingDate |-> day, valueDate |-> day + 1, desc |-> desc,
     amount |-> amount, currency |-> cur]

Records1 ==
    {Record(id, day, desc, amount, "GBP") :
        id \in {<<"a">>, <<"b">>}, day \in {14, 15, 16},
        desc \in {<<"P">>, <<"Q">>}, amount \in {R(10), R(15)}}

\* a record whose remittance text holds a semicolon, and one with none at all
RecS == Record(<<"b">>, 14, <<"P", ";", "S">>, R(15), "GBP")
RecN == Record(<<"b">>, 14, <<>>, R(15), "GBP")

\* the lists of booked records of an account: internal ids are unique
Booked1 ==
    {<<>>} \cup {<<r>> : r \in Records1}
    \cup {<<RecS>>, <<RecN>>}
    \cup {<<p[1], p[2]>> : p \in {x \in Records1 \X Records1 : x[1].id # x[2].id}}

RecC == Record(<<"c">>, 14, <<"Q">>, R(-5), "XXX")
RecD == Record(<<"d">>, 15, <<"Gift">>, R(7), "GBP")
RecE == Record(<<"e">>, 15, <<"P">>, R(10), "GBP")

\* the lists of pending records of account A1
Pending1 == {<<>>, <<RecE>>}

DoneTask(acc_id, balance, group) ==
    [NewTask(acc_id) EXCEPT !.pc = "done", !.data = [transactions |-> group],
                    !.balance = balance, !.result = group,
                    !.nbal = 1, !.ntx = 1, !.status = 200]

\* the reconciler on downloaded data: the download has completed
Init ==
    /\ mode = "transactions"
    /\ config = OldConfig
    /\ saved = OldConfig
    /\ reg = NoRegistration
    /\ tod \in {0, 1}
    /\ \E l \in Ledgers1 : books = [f \in Range(Files) |->
                                       IF f = "f1" THEN Book1(l) ELSE Book2]
    \* the pending list of A1 varies with its booked lists of at most one record
    /\ \E t \in Booked1 : \E p \in (IF Len(t) <= 1 THEN Pending1 ELSE {<<RecE>>}) :
          transactions =
              [a \in Range(AllAccIds) |->
                  CASE a = "A1" -> [booked |-> t, pending |-> p]
                    [] a = "A2" -> [booked |-> <<RecC>>, pending |-> <<>>]
                    [] OTHER    -> [booked |-> <<RecD>>, pending |-> <<RecE>>]]
    /\ balances = [a \in Range(AllAccIds) |->
                      ToDouble(CASE a = "A1" -> R(20) [] a = "A2" -> R(-5)
                                 [] OTHER -> R(8))]
    /\ tasks = [t \in 1..Len(AllAccIds) |->
                   DoneTask(AllAccIds[t], balances[AllAccIds[t]],
                            transactions[AllAccIds[t]])]
    /\ auth = "Bearer"
    /\ books0 = books
    /\ pc = "open"
    /\ run = 1
    /\ fi = 1
    /\ ai = 1
    /\ ri = 1
    /\ index = NoIndex
    /\ out = <<>>
    /\ last = NoLast
    /\ opened = {}

Next ==
    \/ OpenSession
    \/ BuildIndex
    \/ ProcessRecord
    \/ CheckBalances
    \/ NextRun

Spec == Init /\ [][Next]_vars

----------------------------------------------------------------------------
(* The whole of import_transactions: the download, then the reconciliation *)

LedgersDL ==
    {[f \in Range(Files) |-> IF f = "f1" THEN Book1(<<Untag(10, <<>>)>>) ELSE Book2],
     [f \in Range(Files) |->
         IF f = "f1" THEN [Book1(<<>>) EXCEPT !.accts = {"Bank", "Exp1", "Exp2"}]
         ELSE Book2]}

Modes == {"transactions", "register", "token"}

\* the program is started: lines 47 and 394
InitDL ==
    /\ mode \in Modes
    /\ config \in {SmallConfig, SharedConfig, NewConfig}
    /\ saved = config
    /\ reg = NoRegistration
    /\ tod \in {0, 1}
    /\ books \in LedgersDL
    /\ books0 = books
    /\ balances = <<>>
    /\ transactions = <<>>
    /\ tasks = <<>>
    /\ auth = ""
    /\ pc = "main"
    /\ run = 1
    /\ fi = 1
    /\ ai = 1
    /\ ri = 1
    /\ index = NoIndex
    /\ out = <<>>
    /\ last = NoLast
    /\ opened = {}

NextDL ==
    \/ Main
    \/ FetchToken
    \/ Refresh
    \/ RegisterCountry
    \/ RegisterInstitutions
    \/ RegisterAgreement
    \/ RegisterConfirm
    \/ RegisterSummary
    \/ RegisterSelect
    \/ \E t \in DOMAIN tasks : Start(t)
    \/ \E t \in DOMAIN tasks : BalancesResponse(t)
    \/ \E t \in DOMAIN tasks : ErrorBody(t)
    \/ \E t \in DOMAIN tasks : BalancesText(t)
    \/ \E t \in DOMAIN tasks : BalancesBody(t)
    \/ \E t \in DOMAIN tasks : ReconfirmResponse(t)
    \/ \E t \in DOMAIN tasks : ReconfirmText(t)
    \/ \E t \in DOMAIN tasks : ReconfirmBody(t)
    \/ \E t \in DOMAIN tasks : Input(t)
    \/ \E t \in DOMAIN tasks : TransactionsResponse(t)
    \/ \E t \in DOMAIN tasks : TransactionsText(t)
    \/ \E t \in DOMAIN tasks : TransactionsBody(t)
    \/ Gather
    \/ GatherFail
    \/ RunEnds
    \/ OpenSession
    \/ BuildIndex
    \/ ProcessRecord
    \/ CheckBalances

SpecDL == InitDL /\ [][NextDL]_vars

----------------------------------------------------------------------------
(* Properties of the reconciler *)

\* two amounts are the same float
SameAmount(a, b) == ToDouble(a) = ToDouble(b)


\* the TXID tags a memo carries: the id of every "TXID: <id>;" in it
Tags(memo) ==
    {Search(TXID, SubSeq(memo, i, Len(memo))) :
        i \in {k \in 1..(Len(memo) - 1) : memo[k] = TXID}}

\* the TXID tags a split carries
TagsOf(b, ref) == Tags(SplitOf(b, ref).memo)

TagCount(memo) == Cardinality({i \in 1..Len(memo) : memo[i] = TXID})

\* C1: on a second run with the same records on the ledger the first run left,
\* every record is found in the TXID index and no entry is created.
C1_Idempotence ==
    run >= 2 => last.kind \in {"none", "hit", "mismatch"}

\* C2: no two splits of one account carry the same TXID tag, in any state of
\* any run (the ledgers start with unique tags, the records have unique ids):
\* no id is a TXID tag in the memos of two splits of one account.
C2_TagUniqueness ==
    \A f \in Range(Files) :
        \A r1 \in Range(AllSplits(books[f])) : \A r2 \in Range(AllSplits(books[f])) :
            ( /\ r1 # r2
              /\ SplitOf(books[f], r1).acc = SplitOf(books[f], r2).acc )
            => TagsOf(books[f], r1) \cap TagsOf(books[f], r2) = {}

\* the days from the entry of a pool split to the record about to be processed
DaysFrom(ref) ==
    DateOf(CurFile, CurAcc, transactions[CurAcc].booked[ri]) - EntryOf(books[CurFile], ref).date

\* the untagged splits of the pool whose value is the amount of the record
\* about to be processed, when that record has no TXID hit
EqualAmountPool ==
    IF pc = "rec" /\ ~DictHas(index.split_by_txid, transactions[CurAcc].booked[ri].id)
    THEN {ref \in Range(index.gc_splits) :
            SameAmount(SplitOf(books[CurFile], ref).value,
                       transactions[CurAcc].booked[ri].amount)}
    ELSE {}

IsCandidate(ref) ==
    ref \in Range(Candidates(books[CurFile], index.gc_splits,
                             transactions[CurAcc].booked[ri],
                             FromIsoFormat(DateOf(CurFile, CurAcc, transactions[CurAcc].booked[ri]))))

\* C3 as stated: the window is inclusive, a split 5 days before or after the
\* record's date is a candidate and one 6 days away is not.
C3_InclusiveWindow ==
    \A ref \in EqualAmountPool :
        /\ Abs(DaysFrom(ref)) = 5 => IsCandidate(ref)
        /\ Abs(DaysFrom(ref)) = 6 => ~IsCandidate(ref)

\* C3 amended: the comparisons are strict. A split is a candidate when its entry
\* date is at most 4 days from the record's date; it is none when it is 6 or
\* more days away, nor when its entry date is 5 days after the record's date;
\* one dated 5 days before the record's date is a candidate only if the store
\* reports the entry date with a time of day after midnight.
C3_ExclusiveWindow ==
    /\ \A ref \in EqualAmountPool :
          IsCandidate(ref) <=>
              \/ Abs(DaysFrom(ref)) <= 4
              \/ DaysFrom(ref) = 5 /\ tod > 0
    /\ last.kind = "fuzzy" =>
          \/ Abs(last.delta) <= 4
          \/ last.delta = 5 /\ tod > 0

\* C3 witness: a record was not matched to the split of equal amount whose entry
\* date was 5 days after its date, and an entry was created for it
C3_Witness ==
    /\ last.kind = "new"
    /\ last.acc = "A1"
    /\ \E ref \in Range(index.gc_splits) :
          /\ SameAmount(SplitOf(books["f1"], ref).value, last.rec.amount)
          /\ EntryOf(books["f1"], ref).date - last.rec.bookingDate = 5

\* C4: no split is fuzzy-matched (annotated) by more than one record of a run:
\* no memo holds the annotations of two records.
C4_NoDoubleMatching ==
    \A f \in Range(Files) : \A ref \in Range(AllSplits(books[f])) :
        TagCount(SplitOf(books[f], ref).memo) <= 1


\* the record about to be processed has a tagged split whose value differs from
\* its amount
MismatchAhead ==
    /\ pc = "rec"
    /\ \E i \in 1..Len(index.split_by_txid) :
          /\ index.split_by_txid[i].k = transactions[CurAcc].booked[ri].id
          /\ ~SameAmount(SplitOf(books[CurFile], index.split_by_txid[i].v).value,
                         transactions[CurAcc].booked[ri].amount)

\* C5: a record whose tagged split has another amount is reported as an
\* AmountMismatch, changes nothing in any ledger, and the records after it are
\* still processed.
C5_MismatchSkip ==
    [][MismatchAhead =>
         /\ books' = books
         /\ out' = Append(out, [kind |-> "AmountMismatch",
                                tx |-> transactions[CurAcc].booked[ri]])
         /\ pc' # "aborted"
         /\ ri < Len(transactions[CurAcc].booked) => (pc' = "rec" /\ ri' = ri + 1)]_vars

\* C5 witness: after a reported mismatch of the first record the second record
\* of the account was processed and led to a new entry
C5_Witness ==
    /\ out # <<>>
    /\ out[1].kind = "AmountMismatch"
    /\ last.acc = "A1"
    /\ last.kind = "new"
    /\ out[1].tx # last.rec

\* the exact product of two exact numbers
XMul(a, b) ==
    [s |-> a.s * b.s, m |-> BigMul(a.m, b.m), d |-> a.d * b.d, e |-> a.e + b.e]

\* a * d = b * c for the amounts a / b = c / d, exactly and without dividing
SameRatio(a, b, c, d) ==
    XAdd(XMul(Exact(a), Exact(d)), XNeg(XMul(Exact(c), Exact(b)))).s = 0

\* the values of the splits of an entry sum to zero, exactly
Balanced(e) == XSum([i \in 1..Len(e.splits) |-> e.splits[i].value]).s = 0

\* C6: an entry created from a template has the primary split with the record's
\* amount and, for every other split of the template's entry in their order,
\* one split on the same account whose value is to the record's amount as the
\* other split's value is to the template split's; it is balanced when the
\* template's entry is.
C6_FanOutRatios ==
    (last.kind = "new" /\ last.tmpl # NoRef) =>
        LET b == books[last.file]
            new == b.entries[last.ref[1]]
            prev_entry == b.entries[last.tmpl[1]]
            prev_split == SplitOf(b, last.tmpl)
            others == [i \in 1..(Len(prev_entry.splits) - 1) |->
                          prev_entry.splits[IF i < last.tmpl[2] THEN i ELSE i + 1]]
        IN /\ SameAmount(new.splits[1].value, last.rec.amount)
           /\ new.splits[1].acc = AccountData(last.file, last.acc).gc_account
           /\ Len(new.splits) = Len(prev_entry.splits)
           /\ \A i \in 1..Len(others) :
                 /\ new.splits[i + 1].acc = others[i].acc
                 /\ SameRatio(new.splits[i + 1].value, last.rec.amount,
                              others[i].value, prev_split.value)
           /\ Balanced(prev_entry) => Balanced(new)

\* C7: when the construction of an entry fails part-way, nothing of it is left
\* in the ledger: no entry stays behind with its edit open and part of its splits.
C7_AllOrNothing ==
    \A f \in Range(Files) : \A e \in 1..Len(books[f].entries) :
        ~books[f].entries[e].open

\* what the balance check has printed about an account
Warnings(o, f, a) ==
    {i \in 1..Len(o) : /\ o[i].kind = "BalanceDivergence"
                       /\ o[i].account = AccountData(f, a).gc_account}

\* C8 as stated: a BalanceDivergence warning names the expected and the actual
\* balance.
C8_WarningNamesBoth ==
    \A i \in 1..Len(out) :
        out[i].kind = "BalanceDivergence" =>
            {"expected", "actual"} \subseteq DOMAIN out[i]

\* C8 amended: the balance check of a file prints, for each of its accounts, a
\* warning that names the account and the expected (downloaded) balance, and not
\* the actual one, exactly when the ledger balance of the account is not the
\* downloaded one; it changes nothing in any ledger.
C8_BalanceCheck ==
    [][pc = "check" =>
         /\ books' = books
         /\ SubSeq(out', 1, Len(out)) = out
         /\ \A a \in Range(AccIds(CurFile)) :
               LET new == Warnings(out', CurFile, a) \ Warnings(out, CurFile, a)
                   differ == ~SameAmount(GetBalance(books[CurFile],
                                                    AccountData(CurFile, a).gc_account),
                                         balances[a])
               IN /\ new # {} <=> differ
                  /\ Cardinality(new) <= 1
                  /\ \A i \in new :
                        /\ DOMAIN out'[i] = {"kind", "account", "expected"}
                        /\ out'[i].expected = balances[a]]_vars

\* C8 witness: the check of the first file warned about Bank, whose balance 10 is
\* not the downloaded 20, and not about Card, whose balance is the downloaded -5
C8_Witness ==
    /\ pc = "open"
    /\ fi = 2
    /\ Warnings(out, "f1", "A1") # {}
    /\ Warnings(out, "f1", "A2") = {}
    /\ SameAmount(GetBalance(books["f1"], "Bank"), R(10))
    /\ SameAmount(GetBalance(books["f1"], "Card"), R(-5))


\* the record about to be processed
NextRecord == transactions[CurAcc].booked[ri]

\* the split the TXID index holds for the record about to be processed when its
\* value is close to the record's amount, or NoRef
HitAhead ==
    IF pc = "rec"
    THEN LET hits == {i \in 1..Len(index.split_by_txid) :
                         /\ index.split_by_txid[i].k = NextRecord.id
                         /\ IsClose(SplitOf(books[CurFile], index.split_by_txid[i].v).value,
                                    NextRecord.amount)}
         IN IF hits = {} THEN NoRef
            ELSE index.split_by_txid[CHOOSE i \in hits : TRUE].v
    ELSE NoRef

\* C11: a record whose id is in the TXID index, with a split of close value,
\* has that split's reconciliation state set to reconciled and nothing else
\* changed: no memo is annotated, no entry is created, nothing is reported,
\* whether or not an untagged split of equal amount lies within the window and
\* whether the split was in the ledger at the start or came from an earlier run.
C11_ExactDedup ==
    [][HitAhead # NoRef =>
         /\ books' = [books EXCEPT
                        ![CurFile].entries[HitAhead[1]].splits[HitAhead[2]].rec = "y"]
         /\ out' = out
         /\ pc' # "aborted"]_vars

\* C11 witness: in the second run a record was reconciled with the split of the
\* entry the first run had created for it, and another record of the list with
\* the tagged split the ledger held for it at the start, although an untagged
\* split of equal amount still lies within the window of that record
C11_Witness ==
    /\ run = 2
    /\ last.kind = "hit"
    /\ last.acc = "A1"
    /\ last.ref[1] > Len(books0["f1"].entries)
    /\ SplitOf(books["f1"], last.ref).rec = "y"
    /\ SplitOf(books["f1"], last.ref).memo = Annotation(last.rec.id, last.rec.desc)
    /\ \E i \in 1..Len(transactions["A1"].booked) :
          \E hit \in Range(AllSplits(books0["f1"])) :
             \E free \in Range(AllSplits(books0["f1"])) :
                LET r == transactions["A1"].booked[i]
                IN /\ TagsOf(books["f1"], hit) = {r.id}
                   /\ SplitOf(books["f1"], hit).rec = "y"
                   /\ SplitOf(books["f1"], hit).memo = SplitOf(books0["f1"], hit).memo
                   /\ SplitOf(books["f1"], free).acc = "Bank"
                   /\ SplitOf(books["f1"], free).memo = <<>>
                   /\ SameAmount(SplitOf(books["f1"], free).value, r.amount)
                   /\ Abs(EntryOf(books["f1"], free).date - r.bookingDate) <= 4

\* the fuzzy candidates of the record about to be processed, when that record
\* has no TXID hit
CandidateSet ==
    IF pc = "rec" /\ ~DictHas(index.split_by_txid, NextRecord.id)
    THEN {ref \in Range(index.gc_splits) : IsCandidate(ref)}
    ELSE {}

\* the days between the entry date of a split and the authoritative date of
\* the record about to be processed
DayDistance(ref) == Abs(DaysFrom(ref))

\* abs(s.parent.GetDate() - tx_date) for the record about to be processed: the
\* time between the entry date with the time of day the store reports for it
\* and the record's date at midnight
TimeDistance(ref) ==
    Abs(GetDate(books[CurFile], ref[1]) - FromIsoFormat(DateOf(CurFile, CurAcc, NextRecord)))

\* ref comes before other in the split order of the book
Before(ref, other) ==
    \/ ref[1] < other[1]
    \/ ref[1] = other[1] /\ ref[2] < other[2]

\* C12 as stated: when a record has candidates, the split annotated is a
\* candidate whose entry date is the fewest days from the record's date, and it
\* comes before every other candidate that many days away in the account's
\* split order.
C12_TieBreakInDays ==
    [][CandidateSet # {} =>
         /\ last'.kind = "fuzzy"
         /\ last'.ref \in CandidateSet
         /\ \A o \in CandidateSet :
               /\ DayDistance(last'.ref) <= DayDistance(o)
               /\ (o # last'.ref /\ DayDistance(o) = DayDistance(last'.ref))
                     => Before(last'.ref, o)]_vars

\* C12 amended: the distance is the time between the entry date with the time
\* of day the store reports for it and the record's date at midnight. The split
\* annotated is a candidate at the smallest such distance, and it comes before
\* every other candidate at the same such distance in the account's split
\* order: before every other candidate of the same entry date, and, when the
\* store reports midnight, before every other candidate as many days away.
\* When the store reports a time after midnight, of two candidates as many
\* days before and after the record's date the one before it is nearer and is
\* annotated whatever the split order. No other split is annotated.
C12_TieBreak ==
    [][CandidateSet # {} =>
         /\ last'.kind = "fuzzy"
         /\ last'.ref \in CandidateSet
         /\ \A o \in CandidateSet :
               /\ TimeDistance(last'.ref) <= TimeDistance(o)
               /\ (o # last'.ref /\ TimeDistance(o) = TimeDistance(last'.ref))
                     => Before(last'.ref, o)
               /\ (o # last'.ref /\ DaysFrom(o) = DaysFrom(last'.ref))
                     => Before(last'.ref, o)
               /\ (o # last'.ref /\ DayDistance(o) = DayDistance(last'.ref) /\ tod = 0)
                     => Before(last'.ref, o)
               /\ (DaysFrom(o) = 0 - DaysFrom(last'.ref) /\ DaysFrom(o) # 0 /\ tod > 0)
                     => DaysFrom(last'.ref) > 0
         /\ \A ref \in Range(AllSplits(books[CurFile])) :
               (SplitOf(books'[CurFile], ref).memo # SplitOf(books[CurFile], ref).memo)
                  <=> ref = last'.ref]_vars

\* C12 witness: of two candidates at the same distance from the record's date
\* the first in the account's split order was annotated, the second was not
C12_Witness ==
    /\ last.kind = "fuzzy"
    /\ last.acc = "A1"
    /\ last.n = 2
    /\ \E o \in Range(index.gc_splits) :
          /\ Before(last.ref, o)
          /\ SameAmount(SplitOf(books["f1"], o).value, last.rec.amount)
          /\ TagsOf(books["f1"], o) = {}
          /\ TagsOf(books["f1"], last.ref) = {last.rec.id}
          /\ Abs(GetDate(books["f1"], o[1]) - FromIsoFormat(last.rec.bookingDate))
                = Abs((last.rec.bookingDate - last.delta) * TicksPerDay + tod
                      - FromIsoFormat(last.rec.bookingDate))


\* C13: a fuzzy match extends the chosen split's memo by "; " (when the memo was
\* not empty) and the TXID/TXNAME annotation of the record, and sets the date of
\* the split's entry to the record's authoritative date; nothing else changes:
\* no entry or split is created, and value, account and reconciliation state of
\* every split and the memo of every other split stay as they were.
C13_FuzzyEffect ==
    [][CandidateSet # {} =>
         LET ref == last'.ref
             prior == SplitOf(books[CurFile], ref).memo
             note == prior \o (IF prior # <<>> THEN <<";", " ">> ELSE <<>>)
                     \o <<"TXID: ">> \o NextRecord.id \o <<";", " ", "TXNAME: ">>
                     \o NextRecord.desc \o <<";">>
         IN /\ books' = [books EXCEPT
                           ![CurFile].entries[ref[1]].splits[ref[2]].memo = note,
                           ![CurFile].entries[ref[1]].date = DateOf(CurFile, CurAcc, NextRecord)]
            /\ out' = out]_vars

\* C13 witness: the split with the memo "n" of an entry dated day 12 was matched
\* by record a of day 14: the memo is "n; TXID: a; TXNAME: P;", the entry is
\* dated day 14, and the ledger has as many entries as at the start
C13_Witness ==
    /\ last.kind = "fuzzy"
    /\ last.acc = "A1"
    /\ last.delta = 2
    /\ last.rec.bookingDate = 14
    /\ SplitOf(books["f1"], last.ref).memo
          = <<"n", ";", " ", "TXID: ", "a", ";", " ", "TXNAME: ", "P", ";">>
    /\ EntryOf(books["f1"], last.ref).date = 14
    /\ SameAmount(SplitOf(books["f1"], last.ref).value, R(10))
    /\ SplitOf(books["f1"], last.ref).rec = "n"
    /\ Len(books["f1"].entries) = Len(books0["f1"].entries)


\* what one record makes of a ledger, given the index of its account: the
\* ledger, and whether the pass goes on
AfterRecord(b, idx, f, a, r) ==
    LET day == DateOf(f, a, r)
        tx_date == FromIsoFormat(day)
        hit == ExistingSplit(idx, r)
        cands == Candidates(b, idx.gc_splits, r, tx_date)
        prev == PrevSplit(idx.splits_by_name, r.desc)
    IN IF hit # NoRef
       THEN [b |-> IF IsClose(SplitOf(b, hit).value, r.amount)
                   THEN SetReconcile(b, hit) ELSE b,
             ok |-> TRUE]
       ELSE IF cands # <<>>
       THEN [b |-> AnnotateSplit(b, MinByDate(b, cands, tx_date), r, day), ok |-> TRUE]
       ELSE IF DivisionFails(b, prev)
       THEN [b |-> AddEntry(b, AbandonedEntry(b, idx.gc_account, r, day)), ok |-> FALSE]
       ELSE [b |-> AddEntry(b, NewEntry(b, idx.gc_account, r, day, idx.splits_by_name)),
             ok |-> TRUE]

RECURSIVE AfterRecords(_, _, _, _, _)
AfterRecords(b, idx, f, a, recs) ==
    IF recs = <<>> THEN [b |-> b, ok |-> TRUE]
    ELSE LET s == AfterRecord(b, idx, f, a, Head(recs))
         IN IF s.ok THEN AfterRecords(s.b, idx, f, a, Tail(recs)) ELSE s

\* what the booked records of the accounts accs of the file f make of its
\* ledger
RECURSIVE AfterAccounts(_, _, _, _)
AfterAccounts(b, f, accs, booked) ==
    IF accs = <<>> THEN [b |-> b, ok |-> TRUE]
    ELSE IF ~LookupByFullName(b, AccountData(f, Head(accs)).gc_account)
    THEN [b |-> b, ok |-> FALSE]
    ELSE LET s == AfterRecords(b, BuildIndexOf(b, AccountData(f, Head(accs)).gc_account),
                               f, Head(accs), booked[Head(accs)])
         IN IF s.ok THEN AfterAccounts(s.b, f, Tail(accs), booked) ELSE s

\* what one run makes of the ledgers of the files from the i-th on
RECURSIVE AfterFiles(_, _, _)
AfterFiles(bs, i, booked) ==
    IF i > Len(Files) THEN [bs |-> bs, ok |-> TRUE]
    ELSE LET s == AfterAccounts(bs[Files[i]], Files[i], AccIds(Files[i]), booked)
             next == [bs EXCEPT ![Files[i]] = s.b]
         IN IF s.ok THEN AfterFiles(next, i + 1, booked) ELSE [bs |-> next, ok |-> FALSE]

\* what n runs on the same booked records make of the ledgers
RECURSIVE AfterRuns(_, _, _)
AfterRuns(bs, n, booked) ==
    IF n = 0 THEN [bs |-> bs, ok |-> TRUE]
    ELSE LET s == AfterRuns(bs, n - 1, booked)
         IN IF s.ok THEN AfterFiles(s.bs, 1, booked) ELSE s

\* the ids of the records that are pending and not booked for an account
PendingOnly(a) ==
    {transactions[a].pending[i].id : i \in 1..Len(transactions[a].pending)}
    \ {transactions[a].booked[i].id : i \in 1..Len(transactions[a].booked)}

\* C14: the ledgers a run leaves, completed or stopped by an error, are what the
\* booked records alone make of the ledgers it started on, whatever the pending
\* records are; and no memo of any ledger ever carries the id of a record that
\* is only pending.
C14_PendingIgnored ==
    /\ pc \in {"done", "aborted"} =>
          LET s == AfterRuns(books0, run, [a \in Range(AllAccIds) |-> transactions[a].booked])
          IN /\ books = s.bs
             /\ s.ok <=> pc = "done"
    /\ \A f \in Range(Files) : \A a \in Range(AccIds(f)) : \A id \in PendingOnly(a) :
          \A ref \in Range(AllSplits(books[f])) :
             Range(id) \cap Range(SplitOf(books[f], ref).memo) = {}

\* C14 witness: a run has completed with the pending record e of account A1,
\* whose amount and date would have matched the untagged split the ledger still
\* holds; the booked record of the account was given a new entry
C14_Witness ==
    /\ pc = "done"
    /\ transactions["A1"].pending = <<RecE>>
    /\ Len(transactions["A1"].booked) = 1
    /\ Len(books["f1"].entries) = Len(books0["f1"].entries) + 2
    /\ \E ref \in Range(AllSplits(books["f1"])) :
          /\ SplitOf(books["f1"], ref).acc = "Bank"
          /\ SplitOf(books["f1"], ref).memo = <<>>
          /\ SameAmount(SplitOf(books["f1"], ref).value, RecE.amount)
          /\ Abs(EntryOf(books["f1"], ref).date - RecE.bookingDate) <= 4


\* the record about to be processed has no TXID hit, no fuzzy candidate and no
\* group of tagged splits under its description
NothingKnownAhead ==
    /\ pc = "rec"
    /\ ~DictHas(index.split_by_txid, NextRecord.id)
    /\ CandidateSet = {}
    /\ ~DictHas(index.splits_by_name, NextRecord.desc)

\* C15: a record with no TXID hit, no candidate and no recurring pattern adds
\* exactly one entry to the ledger and changes nothing else; the entry has one
\* split, on this account, with the record's amount and the TXID/TXNAME
\* annotation as its whole memo; the entry's date is the record's authoritative
\* date and its description the raw remittance text.
C15_SingleSided ==
    [][NothingKnownAhead =>
         LET old == books[CurFile].entries
             new == books'[CurFile].entries
         IN /\ Len(new) = Len(old) + 1
            /\ SubSeq(new, 1, Len(old)) = old
            /\ \A f \in Range(Files) \ {CurFile} : books'[f] = books[f]
            /\ books'[CurFile].accts = books[CurFile].accts
            /\ new[Len(new)].date = DateOf(CurFile, CurAcc, NextRecord)
            /\ new[Len(new)].desc = NextRecord.desc
            /\ ~new[Len(new)].open
            /\ new[Len(new)].splits
                  = <<[acc |-> AccountData(CurFile, CurAcc).gc_account,
                       value |-> ToDouble(NextRecord.amount),
                       memo |-> <<"TXID: ">> \o NextRecord.id \o <<";", " ", "TXNAME: ">>
                                \o NextRecord.desc \o <<";">>,
                       rec |-> "n"]>>]_vars

\* C15 witness: record b (description Q, amount 10, day 14) found an untagged
\* split of its amount outside the window and tagged splits under another
\* description only, and was given an entry of one split
C15_Witness ==
    /\ last.kind = "new"
    /\ last.acc = "A1"
    /\ last.tmpl = NoRef
    /\ last.n = 0
    /\ last.rec.desc = <<"Q">>
    /\ index.splits_by_name # <<>>
    /\ index.gc_splits # <<>>
    /\ Len(books["f1"].entries[last.ref[1]].splits) = 1
    /\ books["f1"].entries[last.ref[1]].splits[1].memo
          = <<"TXID: ", "b", ";", " ", "TXNAME: ", "Q", ";">>
    /\ books["f1"].entries[last.ref[1]].desc = <<"Q">>
    /\ books["f1"].entries[last.ref[1]].date = 14


\* the record about to be processed has no TXID hit and no fuzzy candidate: an
\* entry is about to be created for it
NewEntryAhead ==
    /\ pc = "rec"
    /\ ~DictHas(index.split_by_txid, NextRecord.id)
    /\ CandidateSet = {}

\* the splits of the TXID index whose memo carries the description of the
\* record about to be processed as TXNAME
NameGroup ==
    {ref \in Range(DictValues(index.split_by_txid)) :
        Search(TXNAME, SplitOf(books[CurFile], ref).memo) = NextRecord.desc}

\* the accounts of the splits of an entry other than the split ref
OtherAccounts(b, ref) ==
    LET all == b.entries[ref[1]].splits
    IN [i \in 1..(Len(all) - 1) |-> all[IF i < ref[2] THEN i ELSE i + 1].acc]

\* C16: the entry created for a record takes its description and its further
\* splits from the split of latest entry date among the splits that were in the
\* TXID index of the account's pass with the record's description as TXNAME;
\* in the first run that split was in the ledger, tagged, before the run; with
\* no such split (none tagged, or tagged with a TXID and no TXNAME, or tagged
\* during this pass) the entry has the raw description and one split.
C16_TemplateSelection ==
    [][NewEntryAhead =>
         LET b == books[CurFile]
             new == books'[CurFile].entries[Len(b.entries) + 1]
         IN IF NameGroup = {}
            THEN /\ last'.tmpl = NoRef
                 /\ new.desc = NextRecord.desc
                 /\ Len(new.splits) = 1
            ELSE \E t \in NameGroup :
                    /\ last'.tmpl = t
                    /\ \A o \in NameGroup : EntryOf(b, o).date <= EntryOf(b, t).date
                    /\ Search(TXID, SplitOf(b, t).memo) # NoMatch
                    /\ run = 1 =>
                          /\ t \in Range(AllSplits(books0[CurFile]))
                          /\ SplitOf(books0[CurFile], t).memo = SplitOf(b, t).memo
                    /\ pc' # "aborted" =>
                          /\ new.desc = EntryOf(b, t).desc
                          /\ [i \in 1..(Len(new.splits) - 1) |-> new.splits[i + 1].acc]
                                = OtherAccounts(b, t)]_vars

\* C16 witness: the first record of the run (description P, amount 10) was
\* matched onto the untagged split of the entry Shop, which took its date 14;
\* the entry created for the second record (description P, amount 15) was made
\* from Wages of day 12, the later of the two splits tagged P before the run
\* and the first of them in the ledger, and not from Shop
C16_Witness ==
    /\ run = 1
    /\ last.kind = "new"
    /\ last.acc = "A1"
    /\ last.tmpl = <<1, 1>>
    /\ last.ref = <<4, 1>>
    /\ books0["f1"].entries = <<Wages(12, <<"c">>), Rent(10, <<"d">>), Untag(13, <<>>)>>
    /\ Search(TXNAME, SplitOf(books["f1"], <<3, 1>>).memo) = last.rec.desc
    /\ books["f1"].entries[3].date = 14
    /\ books["f1"].entries[3].desc = <<"Shop">>
    /\ books["f1"].entries[4].desc = <<"Wages">>
    /\ [i \in 1..3 |-> books["f1"].entries[4].splits[i].acc] = <<"Bank", "Exp1", "Exp2">>
    /\ SameAmount(books["f1"].entries[4].splits[2].value, R(-9))

\* C17: the memo of a split the reconciler has just annotated, by a fuzzy match
\* or as the primary split of a new entry, parses to the record's internal id
\* as TXID and to the record's raw description as TXNAME.
C17_RoundTrip ==
    last.kind \in {"fuzzy", "new"} =>
        LET memo == SplitOf(books[last.file], last.ref).memo
        IN /\ Search(TXID, memo) = last.rec.id
           /\ Search(TXNAME, memo) = last.rec.desc


\* s is a prefix of t
IsPrefix(s, t) == Len(s) <= Len(t) /\ SubSeq(t, 1, Len(s)) = s

\* what a step may do to the split old of an entry of the ledger, now new
SplitPreserved(old, new) ==
    /\ new.acc = old.acc
    /\ new.value = old.value
    /\ new.rec \in {old.rec, "y"}
    /\ IsPrefix(old.memo, new.memo)
    /\ new.rec # old.rec => new.memo = old.memo
    /\ new.memo # old.memo =>
          \E i \in 1..Len(new.memo) : i > Len(old.memo) /\ new.memo[i] = TXID

\* what a step may do to the entry old of the ledger, now new
EntryPreserved(old, new) ==
    /\ new.desc = old.desc
    /\ new.cur = old.cur
    /\ Len(new.splits) = Len(old.splits)
    /\ \A i \in 1..Len(old.splits) : SplitPreserved(old.splits[i], new.splits[i])
    /\ new.date # old.date =>
          \E i \in 1..Len(old.splits) : new.splits[i].memo # old.splits[i].memo

\* C18: no step of any run removes an entry or a split or changes the value or
\* the account of a split, the description of an entry or the accounts of a
\* ledger; of what is in the ledger a step changes at most the reconciliation
\* state of a split, to reconciled, or the memo of a split, by extending it with
\* an annotation, together with the date of that split's entry.
C18_Preserved ==
    [][\A f \in Range(Files) :
          /\ books'[f].accts = books[f].accts
          /\ Len(books'[f].entries) >= Len(books[f].entries)
          /\ \A e \in 1..Len(books[f].entries) :
                EntryPreserved(books[f].entries[e], books'[f].entries[e])]_vars

\* C18 witness: two runs have completed on a ledger of two entries; the tagged
\* split of the first is reconciled, the split of the second has its memo
\* extended and its entry the date of the record, everything else of the two
\* entries is as it was, and entries have been added
C18_Witness ==
    /\ run = 2
    /\ pc = "done"
    /\ books0["f1"].entries = <<Tagged(10, R(10), TagAP), Untag(10, <<>>)>>
    /\ Len(books["f1"].entries) > 2
    /\ books["f1"].entries[1] =
          [books0["f1"].entries[1] EXCEPT !.splits[1].rec = "y"]
    /\ books["f1"].entries[2].date = 14
    /\ books["f1"].entries[2].splits[1].memo # <<>>
    /\ SameAmount(books["f1"].entries[2].splits[1].value, R(10))
    /\ books["f1"].entries[2].splits[2] = books0["f1"].entries[2].splits[2]


----------------------------------------------------------------------------
(* Properties of the download *)

Listed ==
    <<"expectedClosed", "interimBooked", "closingBooked", "openingBooked",
      "information", "interimAvailable", "closingAvailable", "openingAvailable">>

TypesIn(body) == {body[i].balanceType : i \in 1..Len(body)}

\* C9: _download_account goes on with the amount of the listed balance type that
\* no type earlier in the list accompanies in the response, and fails on the
\* assertion exactly when the response holds none of the listed types.
C9_BalanceSelection ==
    \A t \in DOMAIN tasks :
        /\ tasks[t].pc = "transactions" =>
              LET body == tasks[t].data.balances
              IN \E i \in 1..Len(Listed) :
                    /\ Listed[i] \in TypesIn(body)
                    /\ \A j \in 1..(i - 1) : Listed[j] \notin TypesIn(body)
                    /\ \E k \in 1..Len(body) :
                          /\ body[k].balanceType = Listed[i]
                          /\ ToDouble(body[k].amount) = tasks[t].balance
        /\ (tasks[t].pc = "failed" /\ tasks[t].err = "AssertionError") =>
              TypesIn(tasks[t].data.balances) \cap Range(Listed) = {}

\* C9 witness: of closingBooked (1) and interimBooked (2), in that order in the
\* response, the amount 2 of interimBooked was chosen
C9_Witness ==
    /\ tasks # <<>>
    /\ tasks[1].acc = "A1"
    /\ tasks[1].pc = "transactions"
    /\ tasks[1].data.balances
          = <<Balance("closingBooked", 1), Balance("interimBooked", 2)>>
    /\ tasks[1].balance = ToDouble(R(2))

\* C10: no ledger is opened or changed before every account's balance and
\* transaction requests have succeeded, and none ever is once a request of any
\* account has failed.
C10_DownloadThenReconcile ==
    /\ (\/ opened # {}
        \/ books # books0
        \/ mode = "transactions" /\ pc \in {"open", "index", "rec", "check", "done"}) =>
          /\ Len(tasks) = Len(AllAccIds)
          /\ \A t \in DOMAIN tasks :
                /\ tasks[t].acc = AllAccIds[t]
                /\ tasks[t].pc = "done"
                /\ tasks[t].balance # NoBalance
                /\ tasks[t].nbal >= 1
                /\ tasks[t].ntx = 1
                /\ (\A u \in DOMAIN tasks : tasks[u].acc = tasks[t].acc => u <= t) =>
                      /\ balances[tasks[t].acc] = tasks[t].balance
                      /\ transactions[tasks[t].acc] = tasks[t].result
    /\ (\E t \in DOMAIN tasks : tasks[t].pc = "failed") =>
          /\ opened = {}
          /\ books = books0
          /\ pc \in {"gather", "raised", "aborted"}

\* C10 witness: both ledgers were opened and changed after the downloads of
\* both accounts, one of them after a reconfirmation
C10_Witness ==
    /\ opened = {"f1", "f2"}
    /\ books["f1"] # books0["f1"]
    /\ books["f2"] # books0["f2"]
    /\ Len(tasks) = 2
    /\ tasks[1].acc = "A1"
    /\ tasks[1].retry = 1
    /\ tasks[2].acc = "A3"
    /\ tasks[2].retry = 0

\* a task is in _reconfirm_account
Reconfirming(t) == t.pc \in {"reconfirm", "reconfirm_text", "reconfirm_json", "input"}

\* C19: a task makes at most two balance requests, at most one reconfirmation
\* request and at most one transaction-list request; it asks for reconfirmation
\* only after a 401 to its first balance request that carried an agreement id;
\* after any other non-success response, and after any non-success response to
\* its second balance request, it is on its way to raise RuntimeError or has
\* raised it; and it makes the transaction-list request only after a
\* successful balance response.
C19_BoundedRetry ==
    \A i \in DOMAIN tasks :
        LET t == tasks[i]
        IN /\ t.nbal <= 2
           /\ t.nreconf <= 1
           /\ t.ntx <= 1
           /\ t.nbal = 2 => (t.nreconf = 1 /\ t.retry = 1)
           /\ t.nreconf = 1 => (t.eua \in Uuids /\ t.nbal >= 1)
           /\ t.pc = "error" =>
                 (t.status = 401 /\ t.nbal = 1 /\ t.retry = 0 /\ t.nreconf = 0)
           /\ Reconfirming(t) =>
                 (t.status = 401 /\ t.nbal = 1 /\ t.retry = 0 /\ t.nreconf = 1)
           /\ ~Ok(t.status) =>
                 /\ t.ntx = 0
                 /\ \/ t.pc \in {"balances_text", "cancelled"}
                    \/ t.pc = "failed" /\ t.err = "RuntimeError"
                    \/ t.pc = "error"
                    \/ Reconfirming(t)
                    \/ t.pc = "balances" /\ t.nbal = 2 /\ t.status = 401
           /\ (t.nbal = 2 /\ t.pc # "balances" /\ ~Ok(t.status)) =>
                 t.pc \in {"balances_text", "failed", "cancelled"}
           /\ t.ntx = 1 => (t.status # 0 /\ Ok(t.status) /\ t.balance # NoBalance)

\* C19 witness: the first balance request of A1 was answered 401 with an
\* agreement id, the agreement was reconfirmed, the second balance request was
\* answered 401 again, and the task raised without a third request
C19_Witness ==
    /\ tasks # <<>>
    /\ tasks[1].acc = "A1"
    /\ tasks[1].pc = "failed"
    /\ tasks[1].err = "RuntimeError"
    /\ tasks[1].nbal = 2
    /\ tasks[1].nreconf = 1
    /\ tasks[1].status = 401
    /\ tasks[1].ntx = 0

====
